---- MODULE Spec2Model ----
(***************************************************************************)
(* A model of the schema-mapper repository: the agent stack (Stack A:      *)
(* SchemaMapperAgent, DataCleanerAgent, LLMFixAgent, DataProcessingGraph)  *)
(* and the service stack (Stack B: SchemaMapper).                          *)
(*                                                                         *)
(* Column names and cell texts are TLA+ strings; Python's string           *)
(* operations (lower, strip, split, in, f-strings) are operators over      *)
(* them.  Python floats that arise as quotients of small integers are      *)
(* kept as exact fractions <<numerator, denominator>>.                     *)
(***************************************************************************)
EXTENDS Integers, Sequences, FiniteSets, TLC

VARIABLES
    comp,            \* which component this behaviour exercises
    pc,              \* position of the running call / next graph node
    source,          \* SchemaMapperAgent: the source column name under test
    result,          \* SchemaMapperAgent: what _find_best_match returned
    matcher,         \* SchemaMapper: the sequence matcher fuzz.ratio runs on
    source_columns,  \* SchemaMapper.map_columns argument
    canonical_columns, \* SchemaMapper.map_columns argument
    custom_mappings, \* SchemaMapper.map_columns argument, as (source, target) items
    map_result,      \* SchemaMapper.map_columns return value
    learned_fixes,   \* LLMFixAgent.learned_fixes: key -> stored fix
    promotions,      \* the FixSuggestions promote_fix has been called with, in order
    request,         \* LLMFixAgent: the arguments of the last _generate_single_fix call
    suggestion,      \* LLMFixAgent: what that call returned
    state,           \* DataProcessingGraph: the DataProcessingState of the running invoke
    executed,        \* DataProcessingGraph: the nodes the running invoke has executed
    runs,            \* DataProcessingGraph: process_data calls started so far
    input_df,        \* DataCleanerAgent.clean_data argument df
    input_mappings,  \* DataCleanerAgent.clean_data argument mappings
    cleaning,        \* DataCleanerAgent.clean_data return value
    passes,          \* DataCleanerAgent: clean_data calls made so far
    session_files,   \* data_utils: the files of DATA_DIR, session id -> JSON document
    saved_result,    \* data_utils: the result of the last save_processing_result call
    returned_id,     \* data_utils: the session id that call returned
    loaded_result,   \* data_utils: the last load_processing_result call and its result
    schema_file,     \* backend: Project6StdFormat.csv, or None while it is absent
    data_dir,        \* backend: the names of the files under data/
    now,             \* backend: the second datetime.now() shows
    response,        \* backend: the last request and its response
    suggester_fixes, \* FixSuggester.learned_fixes: column -> items (pattern, fix)
    fix_suggestions, \* FixSuggester: the last suggest_fixes call and what it returned
    promoted,        \* wizard: the suggestions whose Promote button was pressed
    fixes_file,      \* data/learned_fixes.json: its content, or None while it is absent
    services,        \* the service processes: each one's FixSuggester.learned_fixes
    written,         \* the promote_fix calls that rewrote the file, in order
    session_state,   \* wizard: st.session_state
    last_run,        \* wizard: the view the last script run rendered and what it did
    fetches,         \* wizard: per cleaning result the /suggest-fixes calls, and the rejections
    llm_run          \* model failures: one loop over items, the replies of the model, the output

mapperAVars == <<source, result>>
mapperBVars == <<matcher, source_columns, canonical_columns, custom_mappings, map_result>>
fixVars == <<learned_fixes, promotions, request, suggestion>>
graphVars == <<state, executed, runs>>
cleanerVars == <<input_df, input_mappings, cleaning, passes>>
storeVars == <<session_files, saved_result, returned_id, loaded_result>>
backendVars == <<schema_file, data_dir, now, response>>
suggesterVars == <<suggester_fixes, fix_suggestions>>
promotionVars == <<promoted>>
raceVars == <<fixes_file, services, written>>
wizardVars == <<session_state, last_run, fetches>>
failureVars == <<llm_run>>
frontVars == <<promotionVars, raceVars, wizardVars, failureVars>>
laterVars == <<cleanerVars, storeVars, backendVars, suggesterVars, frontVars>>
earlierVars == <<mapperAVars, mapperBVars, fixVars, graphVars>>
vars == <<comp, pc, earlierVars, laterVars>>

\* value of the variables a behaviour does not use
Unused == "unused"
MapperAUnused == source = Unused /\ result = Unused
MapperBUnused ==
    /\ matcher = Unused /\ source_columns = Unused /\ canonical_columns = Unused
    /\ custom_mappings = Unused /\ map_result = Unused
FixUnused ==
    /\ learned_fixes = Unused /\ promotions = Unused
    /\ request = Unused /\ suggestion = Unused
GraphUnused == state = Unused /\ executed = Unused /\ runs = Unused
CleanerUnused ==
    /\ input_df = Unused /\ input_mappings = Unused
    /\ cleaning = Unused /\ passes = Unused
StoreUnused ==
    /\ session_files = Unused /\ saved_result = Unused
    /\ returned_id = Unused /\ loaded_result = Unused
BackendUnused ==
    /\ schema_file = Unused /\ data_dir = Unused /\ now = Unused /\ response = Unused
SuggesterUnused == suggester_fixes = Unused /\ fix_suggestions = Unused
PromotionUnused == promoted = Unused
RaceUnused == fixes_file = Unused /\ services = Unused /\ written = Unused
WizardUnused == session_state = Unused /\ last_run = Unused /\ fetches = Unused
FailureUnused == llm_run = Unused
FrontUnused == PromotionUnused /\ RaceUnused /\ WizardUnused /\ FailureUnused
LaterUnused ==
    CleanerUnused /\ StoreUnused /\ BackendUnused /\ SuggesterUnused /\ FrontUnused
EarlierUnused == MapperAUnused /\ MapperBUnused /\ FixUnused /\ GraphUnused

(***************************************************************************)
(* Fractions                                                               *)
(***************************************************************************)
Frac(n, d) == <<n, d>>
FracGT(a, b) == a[1] * b[2] > b[1] * a[2]
FracGE(a, b) == a[1] * b[2] >= b[1] * a[2]
FracEQ(a, b) == a[1] * b[2] = b[1] * a[2]
Zero == Frac(0, 1)
One == Frac(1, 1)
Max(a, b) == IF a >= b THEN a ELSE b

(***************************************************************************)
(* Python string primitives                                                *)
(***************************************************************************)
UpperLetters == "ABCDEFGHIJKLMNOPQRSTUVWXYZ"
LowerLetters == "abcdefghijklmnopqrstuvwxyz"
Digits == "0123456789"

CharAt(s, i) == SubSeq(s, i, i)
IsIn(c, alphabet) == \E i \in 1..Len(alphabet) : CharAt(alphabet, i) = c
IsSpace(c) == c = " " \/ c = "\t" \/ c = "\n" \/ c = "\r"
IsDigit(c) == IsIn(c, Digits)

LowerChar(c) ==
    IF IsIn(c, UpperLetters)
    THEN CharAt(LowerLetters, CHOOSE i \in 1..26 : CharAt(UpperLetters, i) = c)
    ELSE c

RECURSIVE lower(_)
lower(s) == IF Len(s) = 0 THEN "" ELSE LowerChar(CharAt(s, 1)) \o lower(Tail(s))

RECURSIVE lstrip(_)
lstrip(s) == IF Len(s) > 0 /\ IsSpace(CharAt(s, 1)) THEN lstrip(Tail(s)) ELSE s

RECURSIVE rstrip(_)
rstrip(s) ==
    IF Len(s) > 0 /\ IsSpace(CharAt(s, Len(s)))
    THEN rstrip(SubSeq(s, 1, Len(s) - 1))
    ELSE s

strip(s) == rstrip(lstrip(s))

\* Python's `p in s` for strings
Contains(s, p) ==
    \E i \in 1..(Len(s) - Len(p) + 1) : SubSeq(s, i, i + Len(p) - 1) = p

\* set(s.split()): the whitespace-separated words of s
RECURSIVE SplitWords(_, _)
SplitWords(s, cur) ==
    IF Len(s) = 0
    THEN (IF cur = "" THEN {} ELSE {cur})
    ELSE IF IsSpace(CharAt(s, 1))
         THEN (IF cur = "" THEN {} ELSE {cur}) \cup SplitWords(Tail(s), "")
         ELSE SplitWords(Tail(s), cur \o CharAt(s, 1))

split(s) == SplitWords(s, "")

Range(f) == {f[i] : i \in DOMAIN f}

(***************************************************************************)
(* Stack A: SchemaMapperAgent                                              *)
(***************************************************************************)
\* the pattern table, in the dict's declared (insertion) order
mapping_patterns == <<
    [col |-> "order_id",         patterns |-> <<"order", "id", "reference", "ord", "ref">>],
    [col |-> "order_date",       patterns |-> <<"date", "ordered", "created", "timestamp">>],
    [col |-> "customer_id",      patterns |-> <<"customer", "client", "cust", "user">>],
    [col |-> "customer_name",    patterns |-> <<"name", "customer", "client", "fullname">>],
    [col |-> "email",            patterns |-> <<"email", "e-mail", "mail", "contact">>],
    [col |-> "phone",            patterns |-> <<"phone", "mobile", "tel", "contact">>],
    [col |-> "billing_address",  patterns |-> <<"bill", "billing", "address">>],
    [col |-> "shipping_address", patterns |-> <<"ship", "shipping", "delivery">>],
    [col |-> "city",             patterns |-> <<"city", "town", "municipality">>],
    [col |-> "state",            patterns |-> <<"state", "province", "region">>],
    [col |-> "postal_code",      patterns |-> <<"postal", "zip", "pin", "code">>],
    [col |-> "country",          patterns |-> <<"country", "nation", "region">>],
    [col |-> "product_sku",      patterns |-> <<"sku", "code", "product", "item">>],
    [col |-> "product_name",     patterns |-> <<"product", "item", "name", "desc">>],
    [col |-> "category",         patterns |-> <<"cat", "category", "type">>],
    [col |-> "subcategory",      patterns |-> <<"sub", "subcat", "subcategory">>],
    [col |-> "quantity",         patterns |-> <<"qty", "quantity", "units", "amount">>],
    [col |-> "unit_price",       patterns |-> <<"price", "unit", "cost", "rate">>],
    [col |-> "currency",         patterns |-> <<"currency", "curr", "symbol">>],
    [col |-> "discount_pct",     patterns |-> <<"discount", "disc", "off">>],
    [col |-> "tax_pct",          patterns |-> <<"tax", "gst", "vat", "rate">>],
    [col |-> "shipping_fee",     patterns |-> <<"shipping", "ship", "logistics", "fee">>],
    [col |-> "total_amount",     patterns |-> <<"total", "grand", "sum", "amount">>],
    [col |-> "tax_id",           patterns |-> <<"tax", "gstin", "vat", "reg", "registration">>]
>>

\* the canonical schema handed to the agents (keys of the schema file)
canonical_schema == {mapping_patterns[i].col : i \in DOMAIN mapping_patterns}

MappingResult(src, tgt, conf, type) ==
    [source_column |-> src, target_column |-> tgt, confidence |-> conf, mapping_type |-> type]

\* Python's None where a MappingResult is expected
None == "None"
NoMapping == MappingResult(None, None, Zero, None)

\* lines 108-112: the substring-containment update of (best_match, best_score)
SubstringStep(best, source_column, col, pattern) ==
    IF Contains(source_column, pattern) \/ Contains(pattern, source_column)
    THEN LET score == Frac(Len(pattern), Max(Len(source_column), Len(pattern)))
         IN  IF FracGT(score, best[2]) THEN <<col, score>> ELSE best
    ELSE best

\* lines 115-122: the word-overlap update of (best_match, best_score)
OverlapStep(best, source_column, col, pattern) ==
    LET source_words == split(source_column)
        pattern_words == split(pattern)
        overlap == Cardinality(source_words \cap pattern_words)
    IN  IF overlap > 0
        THEN LET score == Frac(overlap, Max(Cardinality(source_words),
                                            Cardinality(pattern_words)))
             IN  IF FracGT(score, best[2]) THEN <<col, score>> ELSE best
        ELSE best

\* line 106: for pattern in patterns
RECURSIVE PatternLoop(_, _, _, _, _)
PatternLoop(best, source_column, col, patterns, k) ==
    IF k > Len(patterns) THEN best
    ELSE PatternLoop(OverlapStep(SubstringStep(best, source_column, col, patterns[k]),
                                 source_column, col, patterns[k]),
                     source_column, col, patterns, k + 1)

\* line 105: for canonical_col, patterns in self.mapping_patterns.items()
RECURSIVE ColumnLoop(_, _, _)
\* nothing has matched yet exactly when best_match is still None
AfterColumn(b, source_column, i) ==
    IF b[1] = None
    THEN ColumnLoop(<<None, Zero>>, source_column, i + 1)
    ELSE ColumnLoop(b, source_column, i + 1)

ColumnLoop(best, source_column, i) ==
    IF i > Len(mapping_patterns) THEN best
    ELSE AfterColumn(PatternLoop(best, source_column, mapping_patterns[i].col,
                                 mapping_patterns[i].patterns, 1),
                     source_column, i)

\* line 124: return (best_match, best_score) if best_match else (None, 0)
FuzzyReturn(best) == IF best[1] # None THEN best ELSE <<None, Zero>>

_fuzzy_match(source_column) == FuzzyReturn(ColumnLoop(<<None, Zero>>, source_column, 1))

\* s.split(sep) for a one-character separator: the sequence of pieces
RECURSIVE SplitOn(_, _, _)
SplitOn(s, sep, cur) ==
    IF Len(s) = 0 THEN <<cur>>
    ELSE IF CharAt(s, 1) = sep
         THEN <<cur>> \o SplitOn(Tail(s), sep, "")
         ELSE SplitOn(Tail(s), sep, cur \o CharAt(s, 1))

DigitVal(c) == (CHOOSE i \in 1..10 : CharAt(Digits, i) = c) - 1

RECURSIVE Pow10(_)
Pow10(k) == IF k = 0 THEN 1 ELSE 10 * Pow10(k - 1)

RECURSIVE DigitsToInt(_, _)
DigitsToInt(s, acc) ==
    IF Len(s) = 0 THEN acc ELSE DigitsToInt(Tail(s), 10 * acc + DigitVal(CharAt(s, 1)))

AllDigits(s) == \A i \in 1..Len(s) : IsDigit(CharAt(s, i))

\* float(s) for plain decimal literals ("7", "0.65", ".5", "1."): <<TRUE, value>>,
\* and <<FALSE, 0>> where Python raises ValueError
ParseFloat(s) ==
    LET parts == SplitOn(s, ".", "")
    IN  IF Len(parts) = 1 /\ Len(s) > 0 /\ AllDigits(s)
        THEN <<TRUE, Frac(DigitsToInt(s, 0), 1)>>
        ELSE IF Len(parts) = 2 /\ Len(parts[1]) + Len(parts[2]) > 0
                /\ AllDigits(parts[1]) /\ AllDigits(parts[2])
        THEN <<TRUE, Frac(DigitsToInt(parts[1] \o parts[2], 0), Pow10(Len(parts[2])))>>
        ELSE <<FALSE, Zero>>

\* one call of self.llm.invoke: it raises, or it returns a reply with this text
LLMReply(raises, content) == [raises |-> raises, content |-> content]

\* lines 145-150: the two pieces of the reply around '|'
SemanticParsed(col_name, parsed) ==
    IF ~parsed[1] THEN <<None, Zero>>               \* float() raises ValueError
    ELSE IF col_name \in canonical_schema
            /\ FracGE(parsed[2], Zero) /\ FracGE(One, parsed[2])
    THEN <<col_name, parsed[2]>>
    ELSE <<None, Zero>>

SemanticPieces(parts) ==
    IF Len(parts) # 2 THEN <<None, Zero>>           \* unpacking raises ValueError
    ELSE SemanticParsed(strip(parts[1]), ParseFloat(strip(parts[2])))

SemanticText(text) ==
    IF ~Contains(text, "|") THEN <<None, Zero>>
    ELSE SemanticPieces(SplitOn(text, "|", ""))

\* _semantic_match: every failure is caught and yields (None, 0)
_semantic_match(source_column, reply) ==
    IF reply.raises THEN <<None, Zero>> ELSE SemanticText(strip(reply.content))

\* line 70: the canonical columns, in declared order, that the lower-cased and
\* trimmed source name equals or lists as a keyword
ExactHit(source_lower, entry) ==
    source_lower \in Range(entry.patterns) \/ source_lower = entry.col

ExactCandidates(source_lower) ==
    SelectSeq(mapping_patterns, LAMBDA e : ExactHit(source_lower, e))

\* line 80: the gate of the fuzzy stage
FuzzyAccepted_AtLeast(score) == FracGE(score, Frac(7, 10))
FuzzyAccepted(score) == FracGT(score, Frac(7, 10))

\* line 90: the gate of the semantic stage
SemanticAccepted(score) == FracGT(score, Frac(6, 10))

\* lines 69-76 with the last matching column winning instead of the first
ExactWinner_Last(candidates) == candidates[Len(candidates)].col
\* lines 69-76: the loop returns at the first matching column
ExactWinner(candidates) == candidates[1].col

\* lines 68-98: the three stages, given what each of them computed
FindStages(source_column, candidates, best_fuzzy, semantic_match) ==
    IF Len(candidates) > 0
    THEN MappingResult(source_column, ExactWinner(candidates), One, "exact")
    ELSE IF FuzzyAccepted(best_fuzzy[2])
    THEN MappingResult(source_column, best_fuzzy[1], best_fuzzy[2], "fuzzy")
    ELSE IF SemanticAccepted(semantic_match[2])
    THEN MappingResult(source_column, semantic_match[1], semantic_match[2], "semantic")
    ELSE NoMapping

_find_best_match(source_column, reply) ==
    FindStages(source_column,
               ExactCandidates(strip(lower(source_column))),
               _fuzzy_match(strip(lower(source_column))),
               _semantic_match(source_column, reply))

(***************************************************************************)
(* Stack B: SchemaMapper (backend/services/schema_mapper.py)               *)
(***************************************************************************)
synonym_mappings ==
    ("customer_id" :> <<"cust_id", "client_id", "id", "customer_number", "client_number">>) @@
    ("customer_name" :> <<"customer name", "full_name", "full name", "name", "client_name", "client name">>) @@
    ("email" :> <<"email address", "email_addr", "e_mail", "email_addr">>) @@
    ("phone" :> <<"phone number", "contact_phone", "contact phone", "telephone", "tel">>) @@
    ("address" :> <<"street address", "street_addr", "address_line", "street">>) @@
    ("city" :> <<"city name", "town", "municipality">>) @@
    ("state" :> <<"state code", "region", "province", "state_province">>) @@
    ("postal_code" :> <<"zip code", "zip", "postal", "postcode">>) @@
    ("country" :> <<"country code", "country_name", "nation">>) @@
    ("registration_date" :> <<"reg date", "reg_date", "date_registered", "signup_date">>) @@
    ("tax_id" :> <<"tax identification", "vat_number", "vat number", "tax_number", "reg no">>) @@
    ("annual_revenue" :> <<"revenue", "annual_revenue", "yearly_revenue", "income">>) @@
    ("industry" :> <<"industry type", "industry_sector", "sector", "business_type">>) @@
    ("employee_count" :> <<"emp count", "emp_count", "staff_count", "staff count", "employees">>) @@
    ("status" :> <<"customer status", "client_status", "client status", "active_status">>)

\* confidence_thresholds, as fractions
confidence_thresholds ==
    [exact |-> Frac(1, 1), synonym |-> Frac(9, 10), fuzzy_high |-> Frac(8, 10),
     fuzzy_medium |-> Frac(6, 10), fuzzy_low |-> Frac(4, 10)]

\* --- fuzz.ratio -----------------------------------------------------------
\* length of the common run of a[i..ahi] and b[j..bhi] starting at (i, j)
RECURSIVE RunLen(_, _, _, _, _, _)
RunLen(a, i, ahi, b, j, bhi) ==
    IF i > ahi \/ j > bhi \/ CharAt(a, i) # CharAt(b, j) THEN 0
    ELSE 1 + RunLen(a, i + 1, ahi, b, j + 1, bhi)

SetMax(S) == CHOOSE x \in S : \A y \in S : y <= x
SetMin(S) == CHOOSE x \in S : \A y \in S : x <= y

\* difflib find_longest_match: a longest common block; of those the one that
\* starts earliest in a, and of those the one that starts earliest in b
MaxRun(a, alo, ahi, b, blo, bhi) ==
    SetMax({0} \cup {RunLen(a, c[1], ahi, b, c[2], bhi) : c \in (alo..ahi) \X (blo..bhi)})

FirstInA(a, alo, ahi, b, blo, bhi, k) ==
    SetMin({i \in alo..ahi : \E j \in blo..bhi : RunLen(a, i, ahi, b, j, bhi) = k})

FirstInB(a, i, ahi, b, blo, bhi, k) ==
    SetMin({j \in blo..bhi : RunLen(a, i, ahi, b, j, bhi) = k})

BlockAt(a, i, ahi, b, blo, bhi, k) == <<i, FirstInB(a, i, ahi, b, blo, bhi, k), k>>

BlockOf(a, alo, ahi, b, blo, bhi, k) ==
    IF k = 0 THEN <<alo, blo, 0>>
    ELSE BlockAt(a, FirstInA(a, alo, ahi, b, blo, bhi, k), ahi, b, blo, bhi, k)

LongestMatch(a, alo, ahi, b, blo, bhi) ==
    BlockOf(a, alo, ahi, b, blo, bhi, MaxRun(a, alo, ahi, b, blo, bhi))

\* difflib get_matching_blocks: total size of the blocks found by splitting
\* recursively around the longest match m
RECURSIVE MatchedChars(_, _, _, _, _, _)
MatchedAround(m, a, alo, ahi, b, blo, bhi) ==
    IF m[3] = 0 THEN 0
    ELSE m[3] + MatchedChars(a, alo, m[1] - 1, b, blo, m[2] - 1)
              + MatchedChars(a, m[1] + m[3], ahi, b, m[2] + m[3], bhi)

MatchedChars(a, alo, ahi, b, blo, bhi) ==
    IF alo > ahi \/ blo > bhi THEN 0
    ELSE MatchedAround(LongestMatch(a, alo, ahi, b, blo, bhi), a, alo, ahi, b, blo, bhi)

\* length of a longest common subsequence, row by row: prev[j + 1] is the
\* value for a[1..i-1] and b[1..j], cur the row being filled for a[1..i]
LcsCell(prev, c, b, cur, j) ==
    IF c = CharAt(b, j) THEN prev[j] + 1 ELSE Max(prev[j + 1], cur[j])

RECURSIVE LcsRow(_, _, _, _)
LcsRow(prev, c, b, cur) ==
    IF Len(cur) > Len(b) THEN cur
    ELSE LcsRow(prev, c, b, Append(cur, LcsCell(prev, c, b, cur, Len(cur))))

RECURSIVE LcsRows(_, _, _, _)
LcsRows(prev, a, b, i) ==
    IF i > Len(a) \/ Len(prev) # Len(b) + 1 THEN prev[Len(b) + 1]
    ELSE LcsRows(LcsRow(prev, CharAt(a, i), b, <<0>>), a, b, i + 1)

Lcs(a, b) == LcsRows([j \in 1..(Len(b) + 1) |-> 0], a, b, 1)

\* utils.intr: int(round(100 * 2M/T)), Python 3 rounding half to even;
\* q and r2 are the quotient and twice the remainder of 100 * 2M by T
RoundHalfEven(q, r2, t) ==
    IF r2 > t \/ (r2 = t /\ q % 2 = 1) THEN q + 1 ELSE q

Intr(m2, t) == RoundHalfEven((100 * m2) \div t, 2 * ((100 * m2) % t), t)

\* fuzz.ratio(s1, s2) under the matcher fuzzywuzzy was installed with:
\* difflib.SequenceMatcher, or python-Levenshtein's matcher
ratio(s1, s2, m) ==
    IF s1 = s2 THEN 100
    ELSE IF Len(s1) = 0 \/ Len(s2) = 0 THEN 0
    ELSE IF m = "difflib"
         THEN Intr(2 * MatchedChars(s1, 1, Len(s1), s2, 1, Len(s2)), Len(s1) + Len(s2))
         ELSE Intr(2 * Lcs(s1, s2), Len(s1) + Len(s2))

\* Python dicts as functions: d[k] = v
DictSet(d, k, v) == [x \in (DOMAIN d) \cup {k} |-> IF x = k THEN v ELSE d[x]]
EmptyDict == [x \in {} |-> Unused]

\* lines 80-82: the listed canonical columns the source name equals, ignoring case
ExactMatches(source_lower, canonical_cols) ==
    SelectSeq(canonical_cols, LAMBDA c : source_lower = lower(c))

HasSynonym(source_lower, c) ==
    /\ c \in DOMAIN synonym_mappings
    /\ \E k \in DOMAIN synonym_mappings[c] : source_lower = lower(synonym_mappings[c][k])

\* lines 85-90: the listed canonical columns one of whose synonyms the source equals
SynonymMatches(source_lower, canonical_cols) ==
    SelectSeq(canonical_cols, LAMBDA c : HasSynonym(source_lower, c))

\* lines 98-104: a column's score is the best ratio over its name and its synonyms
SynonymsOf(c) == IF c \in DOMAIN synonym_mappings THEN synonym_mappings[c] ELSE <<>>

ColumnScore(source_lower, c, m) ==
    SetMax({ratio(source_lower, lower(c), m)} \cup
           {ratio(source_lower, lower(SynonymsOf(c)[k]), m) : k \in DOMAIN SynonymsOf(c)})

\* lines 106-108: if score > best_score
BetterColumn(best, c, score) == IF score > best[2] THEN <<c, score>> ELSE best

\* lines 93-108: best (column, score), the first column winning a tie
RECURSIVE FuzzyBest(_, _, _, _, _)
FuzzyBest(best, source_lower, canonical_cols, i, m) ==
    IF i > Len(canonical_cols) THEN best
    ELSE FuzzyBest(BetterColumn(best, canonical_cols[i],
                                ColumnScore(source_lower, canonical_cols[i], m)),
                   source_lower, canonical_cols, i + 1, m)

\* the three stages tried in the wrong order: synonyms before exact equality
Stage_SynonymFirst(exact, synonym) ==
    IF Len(synonym) > 0 THEN "synonym"
    ELSE IF Len(exact) > 0 THEN "exact" ELSE "fuzzy"
\* lines 79-92: which stage returns
Stage(exact, synonym) ==
    IF Len(exact) > 0 THEN "exact"
    ELSE IF Len(synonym) > 0 THEN "synonym" ELSE "fuzzy"

\* lines 110-113: confidence = best_score / 100.0
FuzzyResult(best) == <<best[1], Frac(best[2], 100)>>

StageResult(stage, source_lower, canonical_cols, m) ==
    IF stage = "exact"
    THEN <<ExactMatches(source_lower, canonical_cols)[1], confidence_thresholds.exact>>
    ELSE IF stage = "synonym"
    THEN <<SynonymMatches(source_lower, canonical_cols)[1], confidence_thresholds.synonym>>
    ELSE FuzzyResult(FuzzyBest(<<None, 0>>, source_lower, canonical_cols, 1, m))

BestMatchLower(source_lower, canonical_cols, m) ==
    StageResult(Stage(ExactMatches(source_lower, canonical_cols),
                      SynonymMatches(source_lower, canonical_cols)),
                source_lower, canonical_cols, m)

SchemaMapper_find_best_match(source_col, canonical_cols, m) ==
    BestMatchLower(strip(lower(source_col)), canonical_cols, m)

\* line 50 without the removal: the overridden column stays in the list
Consume_Kept(columns, source_col) == columns
\* line 50: source_columns = [col for col in source_columns if col != source_col]
Consume(columns, source_col) == SelectSeq(columns, LAMBDA col : col # source_col)

\* lines 47-50: one custom mapping
CustomStep(st, source_col, canonical_col, canonical_cols) ==
    IF source_col \in Range(st.source_columns) /\ canonical_col \in Range(canonical_cols)
    THEN [st EXCEPT !.mapping = DictSet(@, source_col, canonical_col),
                    !.confidence_scores = DictSet(@, source_col, One),
                    !.source_columns = Consume(@, source_col)]
    ELSE st

\* lines 46-50: apply custom mappings first
RECURSIVE CustomLoop(_, _, _, _)
CustomLoop(st, items, canonical_cols, i) ==
    IF i > Len(items) THEN st
    ELSE CustomLoop(CustomStep(st, items[i][1], items[i][2], canonical_cols),
                    items, canonical_cols, i + 1)

\* line 56 with `>` for `>=`: a confidence equal to the threshold is not enough
AutoStep_Strict(st, source_col, found) ==
    IF FracGT(found[2], confidence_thresholds.fuzzy_low)
    THEN [st EXCEPT !.calls = Append(@, <<source_col, found>>),
                    !.mapping = DictSet(@, source_col, found[1]),
                    !.confidence_scores = DictSet(@, source_col, found[2])]
    ELSE [st EXCEPT !.calls = Append(@, <<source_col, found>>),
                    !.unmapped_columns = Append(@, source_col)]

\* lines 54-60: one remaining column; `calls` records the _find_best_match
\* call and what it returned
AutoStep(st, source_col, found) ==
    IF FracGE(found[2], confidence_thresholds.fuzzy_low)
    THEN [st EXCEPT !.calls = Append(@, <<source_col, found>>),
                    !.mapping = DictSet(@, source_col, found[1]),
                    !.confidence_scores = DictSet(@, source_col, found[2])]
    ELSE [st EXCEPT !.calls = Append(@, <<source_col, found>>),
                    !.unmapped_columns = Append(@, source_col)]

\* lines 53-60: map remaining columns
RECURSIVE AutoLoop(_, _, _, _, _)
AutoLoop(st, remaining, canonical_cols, i, m) ==
    IF i > Len(remaining) THEN st
    ELSE AutoLoop(AutoStep(st, remaining[i],
                           SchemaMapper_find_best_match(remaining[i], canonical_cols, m)),
                  remaining, canonical_cols, i + 1, m)

AfterCustom(st, canonical_cols, m) == AutoLoop(st, st.source_columns, canonical_cols, 1, m)

\* lines 62-71: extra columns and the returned dict
MapReturn(st, canonical_cols) ==
    [mapping |-> st.mapping,
     confidence_scores |-> st.confidence_scores,
     unmapped_columns |-> st.unmapped_columns,
     extra_columns |-> SelectSeq(canonical_cols, LAMBDA c : c \notin Range(st.mapping)),
     calls |-> st.calls]

SchemaMapper_map_columns(columns, canonical_cols, custom, m) ==
    MapReturn(AfterCustom(CustomLoop([source_columns |-> columns, mapping |-> EmptyDict,
                                      confidence_scores |-> EmptyDict,
                                      unmapped_columns |-> <<>>, calls |-> <<>>],
                                     custom, canonical_cols, 1),
                          canonical_cols, m),
              canonical_cols)

(***************************************************************************)
(* Python values: a cell, or a fix's value, is its type with its str()     *)
(***************************************************************************)
PyStr(s) == [t |-> "str", s |-> s]
PyInt(s) == [t |-> "int", s |-> s]

\* str(value), also what an f-string puts in place of {value}
str(value) == value.s

\* Optional results: None is the empty tuple, a result x is <<x>>
Nothing == <<>>
Some(x) == <<x>>

StartsWith(s, p) == Len(s) >= Len(p) /\ SubSeq(s, 1, Len(p)) = p

(***************************************************************************)
(* Stack A: LLMFixAgent                                                    *)
(***************************************************************************)
FixSuggestion(column, row_index, original_value, suggested_value, reason, confidence, fix_type) ==
    [column |-> column, row_index |-> row_index, original_value |-> original_value,
     suggested_value |-> suggested_value, reason |-> reason, confidence |-> confidence,
     fix_type |-> fix_type]

\* line 86: key = f"{column}_{error_type}_{str(value)}"
LookupKey(column, value, error_type) == column \o "_" \o error_type \o "_" \o str(value)

\* line 147: key = f"{fix_suggestion.column}_{fix_suggestion.original_value}"
PromoteKey(column, original_value) == column \o "_" \o str(original_value)

\* lines 84-87: self.learned_fixes.get(key)
_check_learned_fixes(fixes, column, value, error_type) ==
    IF LookupKey(column, value, error_type) \in DOMAIN fixes
    THEN Some(fixes[LookupKey(column, value, error_type)])
    ELSE Nothing

\* line.split(':', 1)[1].strip() for a line that holds a colon
AfterColon(line) ==
    strip(SubSeq(line, 1 + (CHOOSE i \in 1..Len(line) :
                                /\ CharAt(line, i) = ":"
                                /\ \A j \in 1..(i - 1) : CharAt(line, j) # ":"),
                 Len(line)))

\* lines 128-131: float(...) and 0.5 where it raises
ParsedConfidence(parsed) == IF parsed[1] THEN parsed[2] ELSE Frac(1, 2)

\* lines 123-131: one line of the reply; suggested_value starts as None, which
\* line 133 treats as it treats the empty string
ParseLine(acc, line) ==
    IF StartsWith(line, "SUGGESTED_VALUE:")
    THEN [acc EXCEPT !.suggested_value = AfterColon(line)]
    ELSE IF StartsWith(line, "REASON:")
    THEN [acc EXCEPT !.reason = AfterColon(line)]
    ELSE IF StartsWith(line, "CONFIDENCE:")
    THEN [acc EXCEPT !.confidence = ParsedConfidence(ParseFloat(AfterColon(line)))]
    ELSE acc

\* lines 122-131: for line in lines
RECURSIVE ParseLines(_, _, _)
ParseLines(acc, lines, i) ==
    IF i > Len(lines) THEN acc
    ELSE ParseLines(ParseLine(acc, lines[i]), lines, i + 1)

\* lines 133-138: if suggested_value and reason
ParsedFix(acc) ==
    IF acc.suggested_value # "" /\ acc.reason # ""
    THEN Some([suggested_value |-> PyStr(acc.suggested_value), reason |-> acc.reason,
               confidence |-> acc.confidence])
    ELSE Nothing

\* lines 89-143: the reply of self.llm.invoke parsed; every failure gives None
_generate_llm_fix(reply) ==
    IF reply.raises THEN Nothing
    ELSE ParsedFix(ParseLines([suggested_value |-> "", reason |-> "", confidence |-> Zero],
                              SplitOn(strip(reply.content), "\n", ""), 1))

\* lines 67-77: the LLM's fix, if it gave one
FromLLM(llm_fix, column, value, row_index) ==
    IF Len(llm_fix) > 0
    THEN Some(FixSuggestion(column, row_index, value, llm_fix[1].suggested_value,
                            llm_fix[1].reason, llm_fix[1].confidence, "llm"))
    ELSE Nothing

\* lines 54-64: the learned fix, if the lookup found one
FromLearned(learned_fix, column, value, row_index, reply) ==
    IF Len(learned_fix) > 0
    THEN Some(FixSuggestion(column, row_index, value, learned_fix[1].suggested_value,
                            "Learned fix: " \o learned_fix[1].reason,
                            learned_fix[1].confidence, "learned"))
    ELSE FromLLM(_generate_llm_fix(reply), column, value, row_index)

\* lines 50-82
_generate_single_fix(fixes, column, value, error_type, row_index, reply) ==
    FromLearned(_check_learned_fixes(fixes, column, value, error_type),
                column, value, row_index, reply)

\* line 153: self.learned_fixes.get(key, {}).get('usage_count', 0)
UsageCount(fixes, key) == IF key \in DOMAIN fixes THEN fixes[key].usage_count ELSE 0

\* lines 145-157: the store after promote_fix(fix_suggestion)
promote_fix(fixes, fix_suggestion) ==
    DictSet(fixes, PromoteKey(fix_suggestion.column, fix_suggestion.original_value),
            [suggested_value |-> fix_suggestion.suggested_value,
             reason |-> fix_suggestion.reason,
             confidence |-> fix_suggestion.confidence,
             usage_count |-> UsageCount(fixes, PromoteKey(fix_suggestion.column,
                                                          fix_suggestion.original_value)) + 1])

(***************************************************************************)
(* Python numbers and dates.  A float is kept by its repr, and the model   *)
(* takes the repr of the exact decimal quotient; numbers stay below 2^31   *)
(* and cell texts hold no exponent, underscore, inf or nan spelling.       *)
(***************************************************************************)
PyFloat(s) == [t |-> "float", s |-> s]
NaN == PyFloat("nan")

\* pd.isna(value)
isna(value) == value = NaN

RECURSIVE upper(_)
UpperChar(c) ==
    IF IsIn(c, LowerLetters)
    THEN CharAt(UpperLetters, CHOOSE i \in 1..26 : CharAt(LowerLetters, i) = c)
    ELSE c

upper(s) == IF Len(s) = 0 THEN "" ELSE UpperChar(CharAt(s, 1)) \o upper(Tail(s))

AllIn(s, alphabet) == \A i \in 1..Len(s) : IsIn(CharAt(s, i), alphabet)

\* s with the characters of alphabet taken out (str.replace(c, ''), re.sub('[..]', '', s))
RECURSIVE RemoveChars(_, _)
RemoveChars(s, alphabet) ==
    IF Len(s) = 0 THEN ""
    ELSE IF IsIn(CharAt(s, 1), alphabet) THEN RemoveChars(Tail(s), alphabet)
    ELSE CharAt(s, 1) \o RemoveChars(Tail(s), alphabet)

\* position of the first c in s, which holds one
IndexOf(s, c) ==
    CHOOSE i \in 1..Len(s) : CharAt(s, i) = c /\ \A j \in 1..(i - 1) : CharAt(s, j) # c

\* str(n) for an int n >= 0
RECURSIVE IntToStr(_)
IntToStr(n) ==
    IF n < 10 THEN CharAt(Digits, n + 1)
    ELSE IntToStr(n \div 10) \o CharAt(Digits, (n % 10) + 1)

RECURSIVE Log10(_)
Log10(d) == IF d <= 1 THEN 0 ELSE 1 + Log10(d \div 10)

RECURSIVE ZeroPad(_, _)
ZeroPad(s, width) == IF Len(s) >= width THEN s ELSE ZeroPad("0" \o s, width)

RECURSIVE DropZeros(_)
DropZeros(s) ==
    IF Len(s) > 1 /\ CharAt(s, Len(s)) = "0" THEN DropZeros(SubSeq(s, 1, Len(s) - 1)) ELSE s

\* repr(x) of a float x = n/d >= 0 with d a power of ten: "12.5", "1000.0"
FloatRepr(f) ==
    IntToStr(f[1] \div f[2]) \o "." \o
    (IF f[2] = 1 THEN "0" ELSE DropZeros(ZeroPad(IntToStr(f[1] % f[2]), Log10(f[2]))))

\* float(s) and int(s) take a sign and surrounding whitespace
Negative(s) == Len(s) > 0 /\ CharAt(s, 1) = "-"
Unsigned(s) == IF Len(s) > 0 /\ (CharAt(s, 1) = "-" \/ CharAt(s, 1) = "+") THEN Tail(s) ELSE s
SignedFloat(negative, parsed) ==
    IF negative /\ parsed[1] THEN <<TRUE, Frac(0 - parsed[2][1], parsed[2][2])>> ELSE parsed

\* float(s): <<TRUE, value>>, or <<FALSE, 0>> where Python raises ValueError
float(s) == SignedFloat(Negative(strip(s)), ParseFloat(Unsigned(strip(s))))

ParseInt(s) ==
    IF Len(s) > 0 /\ AllDigits(s) THEN <<TRUE, DigitsToInt(s, 0)>> ELSE <<FALSE, 0>>
SignedInt(negative, parsed) ==
    IF negative /\ parsed[1] THEN <<TRUE, 0 - parsed[2]>> ELSE parsed

\* int(s) for a string s: <<TRUE, value>>, or <<FALSE, 0>> where Python raises ValueError
int(s) == SignedInt(Negative(strip(s)), ParseInt(Unsigned(strip(s))))

\* a == b between cells: numbers by value, texts by text, NaN equal to nothing
IsNumber(value) == value.t \in {"int", "float"} /\ value # NaN
PyEq(a, b) ==
    IF IsNumber(a) /\ IsNumber(b) THEN FracEQ(float(a.s)[2], float(b.s)[2])
    ELSE a # NaN /\ a = b

MonthNames == <<"jan", "feb", "mar", "apr", "may", "jun",
                "jul", "aug", "sep", "oct", "nov", "dec">>
NonZeroDigits == "123456789"

\* _strptime's regex pieces: %d, %m, %Y, %b
DayTokenOk(tok) ==
    \/ Len(tok) = 1 /\ IsIn(tok, NonZeroDigits)
    \/ /\ Len(tok) = 2
       /\ \/ CharAt(tok, 1) = "3" /\ IsIn(CharAt(tok, 2), "01")
          \/ IsIn(CharAt(tok, 1), "12") /\ IsDigit(CharAt(tok, 2))
          \/ CharAt(tok, 1) = "0" /\ IsIn(CharAt(tok, 2), NonZeroDigits)
          \/ CharAt(tok, 1) = " " /\ IsIn(CharAt(tok, 2), NonZeroDigits)
MonthTokenOk(tok) ==
    \/ Len(tok) = 1 /\ IsIn(tok, NonZeroDigits)
    \/ /\ Len(tok) = 2
       /\ \/ CharAt(tok, 1) = "1" /\ IsIn(CharAt(tok, 2), "012")
          \/ CharAt(tok, 1) = "0" /\ IsIn(CharAt(tok, 2), NonZeroDigits)
YearTokenOk(tok) == Len(tok) = 4 /\ AllDigits(tok)
MonthNameOk(tok) == lower(tok) \in Range(MonthNames)
MonthOfName(tok) == CHOOSE m \in 1..12 : MonthNames[m] = lower(tok)

IsLeap(y) == (y % 4 = 0 /\ y % 100 # 0) \/ y % 400 = 0
DaysInMonth(y, m) ==
    IF m = 2 THEN (IF IsLeap(y) THEN 29 ELSE 28)
    ELSE IF m \in {4, 6, 9, 11} THEN 30 ELSE 31

NoDate == <<FALSE, 0, 0, 0>>

\* datetime(y, m, d) raises ValueError for a day the month does not have, and for year 0
CheckedDate(y, m, d) == IF y >= 1 /\ d <= DaysInMonth(y, m) THEN <<TRUE, y, m, d>> ELSE NoDate

ParseYMD(parts) ==
    IF Len(parts) = 3 /\ YearTokenOk(parts[1]) /\ MonthTokenOk(parts[2]) /\ DayTokenOk(parts[3])
    THEN CheckedDate(DigitsToInt(parts[1], 0), DigitsToInt(parts[2], 0),
                     DigitsToInt(lstrip(parts[3]), 0))
    ELSE NoDate

ParseDMY(parts) ==
    IF Len(parts) = 3 /\ DayTokenOk(parts[1]) /\ MonthTokenOk(parts[2]) /\ YearTokenOk(parts[3])
    THEN CheckedDate(DigitsToInt(parts[3], 0), DigitsToInt(parts[2], 0),
                     DigitsToInt(lstrip(parts[1]), 0))
    ELSE NoDate

ParseDbY(parts) ==
    IF Len(parts) = 3 /\ DayTokenOk(parts[1]) /\ MonthNameOk(parts[2]) /\ YearTokenOk(parts[3])
    THEN CheckedDate(DigitsToInt(parts[3], 0), MonthOfName(parts[2]),
                     DigitsToInt(lstrip(parts[1]), 0))
    ELSE NoDate

\* datetime.strptime(s, fmt): <<TRUE, y, m, d>>, or NoDate where it raises ValueError
strptime(s, fmt) ==
    IF fmt = "%Y-%m-%d" THEN ParseYMD(SplitOn(s, "-", ""))
    ELSE IF fmt = "%d/%m/%Y" THEN ParseDMY(SplitOn(s, "/", ""))
    ELSE IF fmt = "%d-%m-%Y" THEN ParseDMY(SplitOn(s, "-", ""))
    ELSE ParseDbY(SplitOn(s, "-", ""))

\* dt.strftime('%Y-%m-%d'), for years of four digits
strftime(dt) ==
    ZeroPad(IntToStr(dt[2]), 4) \o "-" \o ZeroPad(IntToStr(dt[3]), 2) \o "-"
    \o ZeroPad(IntToStr(dt[4]), 2)

(***************************************************************************)
(* The regular expressions of the cleaning rules and validators, as        *)
(* re.match applies them: `$` also matches before one final newline        *)
(***************************************************************************)
Letters == LowerLetters \o UpperLetters
UpperAlnum == UpperLetters \o Digits

\* the text without its final newline, if it ends with one
Chomp(s) ==
    IF Len(s) > 0 /\ CharAt(s, Len(s)) = "\n" THEN SubSeq(s, 1, Len(s) - 1) ELSE s

\* whether a pattern anchored by `^...$` matches, given whether its body
\* matches the whole text and whether it matches the text without the newline
DollarMatch(whole, chomped) == whole \/ chomped

PrefixedDigits(prefix, s) ==
    /\ StartsWith(s, prefix) /\ Len(s) > Len(prefix)
    /\ AllDigits(SubSeq(s, Len(prefix) + 1, Len(s)))

\* ORD-\d+ and CUST-\d+
OrderIdFull(s) == PrefixedDigits("ORD-", s)
CustomerIdFull(s) == PrefixedDigits("CUST-", s)

\* [a-zA-Z0-9._%+-]+@[a-zA-Z0-9.-]+\.[a-zA-Z]{2,}
EmailFull(s) ==
    \E at \in 2..Len(s) :
        /\ CharAt(s, at) = "@"
        /\ AllIn(SubSeq(s, 1, at - 1), Letters \o Digits \o "._%+-")
        /\ \E dot \in (at + 2)..(Len(s) - 2) :
            /\ CharAt(s, dot) = "."
            /\ AllIn(SubSeq(s, at + 1, dot - 1), Letters \o Digits \o ".-")
            /\ AllIn(SubSeq(s, dot + 1, Len(s)), Letters)

\* \+91-\d{10}
PhoneFull(s) == StartsWith(s, "+91-") /\ Len(s) = 14 /\ AllDigits(SubSeq(s, 5, 14))

\* \d{6}
PostalCodeFull(s) == Len(s) = 6 /\ AllDigits(s)

\* [\d,]+\.?\d*
CurrencyAround(s, dot) ==
    /\ dot > 1
    /\ AllIn(SubSeq(s, 1, dot - 1), Digits \o ",")
    /\ AllDigits(SubSeq(s, dot + 1, Len(s)))
CurrencyFull(s) ==
    IF Contains(s, ".") THEN CurrencyAround(s, IndexOf(s, "."))
    ELSE Len(s) > 0 /\ AllIn(s, Digits \o ",")

\* [\d.]+%?
PercentBody(s) == Len(s) > 0 /\ AllIn(s, Digits \o ".")
PercentageFull(s) ==
    IF Len(s) > 0 /\ CharAt(s, Len(s)) = "%"
    THEN PercentBody(SubSeq(s, 1, Len(s) - 1))
    ELSE PercentBody(s)

\* \d{2}[A-Z]{5}\d{4}[A-Z]{1}[A-Z\d]{1}[Z]{1}[A-Z\d]{1}
GstinFull(s) ==
    /\ Len(s) = 15
    /\ AllDigits(SubSeq(s, 1, 2)) /\ AllIn(SubSeq(s, 3, 7), UpperLetters)
    /\ AllDigits(SubSeq(s, 8, 11)) /\ IsIn(CharAt(s, 12), UpperLetters)
    /\ IsIn(CharAt(s, 13), UpperAlnum) /\ CharAt(s, 14) = "Z"
    /\ IsIn(CharAt(s, 15), UpperAlnum)

OrderIdPattern == "^ORD-\\d+$"
CustomerIdPattern == "^CUST-\\d+$"
EmailPattern == "^[a-zA-Z0-9._%+-]+@[a-zA-Z0-9.-]+\\.[a-zA-Z]{2,}$"
PhonePattern == "^\\+91-\\d{10}$"
PostalCodePattern == "^\\d{6}$"
CurrencyPattern == "^[\\d,]+\\.?\\d*$"
PercentagePattern == "^[\\d.]+%?$"
GstinPattern == "^\\d{2}[A-Z]{5}\\d{4}[A-Z]{1}[A-Z\\d]{1}[Z]{1}[A-Z\\d]{1}$"

\* bool(re.match(pattern, s)) for the patterns the agents use
re_match(pattern, s) ==
    IF pattern = OrderIdPattern THEN DollarMatch(OrderIdFull(s), OrderIdFull(Chomp(s)))
    ELSE IF pattern = CustomerIdPattern THEN DollarMatch(CustomerIdFull(s), CustomerIdFull(Chomp(s)))
    ELSE IF pattern = EmailPattern THEN DollarMatch(EmailFull(s), EmailFull(Chomp(s)))
    ELSE IF pattern = PhonePattern THEN DollarMatch(PhoneFull(s), PhoneFull(Chomp(s)))
    ELSE IF pattern = PostalCodePattern THEN DollarMatch(PostalCodeFull(s), PostalCodeFull(Chomp(s)))
    ELSE IF pattern = CurrencyPattern THEN DollarMatch(CurrencyFull(s), CurrencyFull(Chomp(s)))
    ELSE IF pattern = PercentagePattern THEN DollarMatch(PercentageFull(s), PercentageFull(Chomp(s)))
    ELSE IF pattern = GstinPattern THEN DollarMatch(GstinFull(s), GstinFull(Chomp(s)))
    ELSE FALSE

(***************************************************************************)
(* Stack A: DataCleanerAgent                                               *)
(***************************************************************************)
CleaningRule(column, rule_type, pattern, replacement, validation_func) ==
    [column |-> column, rule_type |-> rule_type, pattern |-> pattern,
     replacement |-> replacement, validation_func |-> validation_func]

\* lines 36-81: the rules of each canonical column that has any.  A rule's
\* validation_func is kept by the name of the method; no code calls it.  The
\* class defines no _validate_date (its validators are lines 243-279), so as
\* written the lookup self._validate_date of lines 41-43 raises AttributeError
\* and DataCleanerAgent.__init__ does not return: this is the table the
\* constructor is written to build.
cleaning_rules ==
    ("order_id" :> <<CleaningRule("order_id", "format", OrderIdPattern, "ORD-{id}",
                                  "_validate_order_id")>>) @@
    ("order_date" :> <<CleaningRule("order_date", "date_format", "\\d{4}-\\d{2}-\\d{2}",
                                    "{date}", "_validate_date"),
                       CleaningRule("order_date", "date_format", "\\d{2}/\\d{2}/\\d{4}",
                                    "{date}", "_validate_date"),
                       CleaningRule("order_date", "date_format", "\\d{2}-\\w{3}-\\d{4}",
                                    "{date}", "_validate_date")>>) @@
    ("customer_id" :> <<CleaningRule("customer_id", "format", CustomerIdPattern, "CUST-{id}",
                                     "_validate_customer_id")>>) @@
    ("email" :> <<CleaningRule("email", "email_format", EmailPattern, "{email}",
                               "_validate_email")>>) @@
    ("phone" :> <<CleaningRule("phone", "phone_format", PhonePattern, "+91-{phone}",
                               "_validate_phone")>>) @@
    ("postal_code" :> <<CleaningRule("postal_code", "numeric", "^\\d+$", "{code}",
                                     "_validate_postal_code")>>) @@
    ("quantity" :> <<CleaningRule("quantity", "numeric", "^\\d+$", "{qty}",
                                  "_validate_quantity")>>) @@
    ("unit_price" :> <<CleaningRule("unit_price", "currency", CurrencyPattern, "{price}",
                                    "_validate_price")>>) @@
    ("currency" :> <<CleaningRule("currency", "currency_code", "^(INR|₹|Rs|inr)$", "INR",
                                  "_validate_currency")>>) @@
    ("discount_pct" :> <<CleaningRule("discount_pct", "percentage", PercentagePattern, "{pct}",
                                      "_validate_percentage")>>) @@
    ("tax_pct" :> <<CleaningRule("tax_pct", "percentage", PercentagePattern, "{pct}",
                                 "_validate_percentage")>>) @@
    ("shipping_fee" :> <<CleaningRule("shipping_fee", "currency", CurrencyPattern, "{fee}",
                                      "_validate_price")>>) @@
    ("total_amount" :> <<CleaningRule("total_amount", "currency", CurrencyPattern, "{amount}",
                                      "_validate_price")>>) @@
    ("tax_id" :> <<CleaningRule("tax_id", "gstin_format", GstinPattern, "{gstin}",
                                "_validate_gstin")>>)

CleaningResult(column, original_value, cleaned_value, rule_applied, confidence) ==
    [column |-> column, original_value |-> original_value, cleaned_value |-> cleaned_value,
     rule_applied |-> rule_applied, confidence |-> confidence]

DateFormats == <<"%Y-%m-%d", "%d/%m/%Y", "%d-%m-%Y", "%d-%b-%Y">>

\* lines 182-194
_is_valid_date_format(date_str) ==
    \E i \in DOMAIN DateFormats : strptime(date_str, DateFormats[i])[1]

NormalizeFormats == <<"%d/%m/%Y", "%d-%m-%Y", "%d-%b-%Y", "%Y-%m-%d">>

\* lines 205-212: the first format that parses decides
RECURSIVE NormalizeFrom(_, _)
NormalizeWith(dt, date_str, i) ==
    IF dt[1] THEN strftime(dt) ELSE NormalizeFrom(date_str, i + 1)

NormalizeFrom(date_str, i) ==
    IF i > Len(NormalizeFormats) THEN date_str
    ELSE NormalizeWith(strptime(date_str, NormalizeFormats[i]), date_str, i)

\* lines 196-212
_normalize_date(date_str) == NormalizeFrom(date_str, 1)

\* a float result, or the value itself where the conversion raised (line 179-180)
FloatOrValue(parsed, value) ==
    IF parsed[1] THEN PyFloat(FloatRepr(parsed[2])) ELSE value

\* lines 214-218: float(re.sub(r'[,\s₹$]', '', value))
_normalize_currency(value) == float(RemoveChars(value, ", \t\n\r₹$"))

\* line 225 with `>=` for `>`: the value 1.0 is divided as well
AsFraction_AtLeast(parsed) ==
    IF parsed[1] /\ FracGE(parsed[2], One)
    THEN <<TRUE, Frac(parsed[2][1], parsed[2][2] * 100)>>
    ELSE parsed

\* lines 224-227: if pct > 1: pct = pct / 100
AsFraction(parsed) ==
    IF parsed[1] /\ FracGT(parsed[2], One)
    THEN <<TRUE, Frac(parsed[2][1], parsed[2][2] * 100)>>
    ELSE parsed

\* lines 220-227
_normalize_percentage(value) == AsFraction(float(RemoveChars(value, "%")))

\* lines 232-235: the ten digits prefixed, or the value as it is
PhoneOfDigits(digits, value) == IF Len(digits) = 10 THEN "+91-" \o digits ELSE value

\* the characters of s that are in alphabet (re.sub(r'\D', '', s) keeps the digits)
RECURSIVE KeepChars(_, _)
KeepChars(s, alphabet) ==
    IF Len(s) = 0 THEN ""
    ELSE IF IsIn(CharAt(s, 1), alphabet) THEN CharAt(s, 1) \o KeepChars(Tail(s), alphabet)
    ELSE KeepChars(Tail(s), alphabet)

\* lines 229-235
_normalize_phone(value) == PhoneOfDigits(KeepChars(value, Digits), value)

\* int(x) of a float x >= 0, or the value itself where float() raised
IntOrValue(parsed, value) ==
    IF parsed[1] THEN PyInt(IntToStr(parsed[2][1] \div parsed[2][2])) ELSE value

\* lines 237-240: int(float(re.sub(r'[,\s]', '', value)))
_normalize_numeric(value) == float(RemoveChars(value, ", \t\n\r"))

\* lines 138-161
_apply_rule(value, rule) ==
    IF rule.rule_type = "format" THEN re_match(rule.pattern, str(value))
    ELSE IF rule.rule_type = "date_format" THEN _is_valid_date_format(str(value))
    ELSE IF rule.rule_type = "email_format" THEN re_match(rule.pattern, str(value))
    ELSE IF rule.rule_type = "phone_format" THEN re_match(rule.pattern, str(value))
    ELSE IF rule.rule_type = "numeric"
    THEN /\ RemoveChars(str(value), ",.") # ""
         /\ AllDigits(RemoveChars(str(value), ",."))
    ELSE IF rule.rule_type = "currency" THEN re_match(rule.pattern, str(value))
    ELSE IF rule.rule_type = "percentage" THEN re_match(rule.pattern, str(value))
    ELSE IF rule.rule_type = "currency_code" THEN upper(str(value)) \in {"INR", "₹", "RS"}
    ELSE IF rule.rule_type = "gstin_format" THEN re_match(rule.pattern, str(value))
    ELSE FALSE

\* lines 163-180
_transform_value(value, rule) ==
    IF rule.rule_type = "date_format" THEN PyStr(_normalize_date(str(value)))
    ELSE IF rule.rule_type = "currency" THEN FloatOrValue(_normalize_currency(str(value)), value)
    ELSE IF rule.rule_type = "percentage"
    THEN FloatOrValue(_normalize_percentage(str(value)), value)
    ELSE IF rule.rule_type = "currency_code" THEN PyStr("INR")
    ELSE IF rule.rule_type = "phone_format" THEN PyStr(_normalize_phone(str(value)))
    ELSE IF rule.rule_type = "numeric" THEN IntOrValue(_normalize_numeric(str(value)), value)
    ELSE value

\* lines 121-134: the first rule that applies to the value gives its result
RECURSIVE RuleLoop(_, _, _, _)
RuleLoop(value, column_name, rules, k) ==
    IF k > Len(rules) THEN <<>>
    ELSE IF _apply_rule(value, rules[k])
    THEN <<CleaningResult(column_name, value, _transform_value(value, rules[k]),
                          rules[k].rule_type, Frac(9, 10))>>
    ELSE RuleLoop(value, column_name, rules, k + 1)

\* line 111: self.cleaning_rules.get(column_name, [])
RulesOf(column_name) ==
    IF column_name \in DOMAIN cleaning_rules THEN cleaning_rules[column_name] ELSE <<>>

\* series.unique(): the cells in order of first appearance
RECURSIVE unique(_, _, _)
unique(series, i, seen) ==
    IF i > Len(series) THEN seen
    ELSE IF \E k \in DOMAIN seen : PyEq(seen[k], series[i]) \/ (isna(seen[k]) /\ isna(series[i]))
    THEN unique(series, i + 1, seen)
    ELSE unique(series, i + 1, Append(seen, series[i]))

\* lines 113-134: for value in series.unique()
RECURSIVE ValueLoop(_, _, _, _)
ValueLoop(values, column_name, i, results) ==
    IF i > Len(values) THEN results
    ELSE IF isna(values[i]) THEN ValueLoop(values, column_name, i + 1, results)
    ELSE ValueLoop(values, column_name, i + 1,
                   results \o RuleLoop(values[i], column_name, RulesOf(column_name), 1))

\* line 113 without .unique(): the rules are tried on every row
_clean_column_PerRow(series, column_name) == ValueLoop(series, column_name, 1, <<>>)

\* lines 108-136
_clean_column(series, column_name) == ValueLoop(unique(series, 1, <<>>), column_name, 1, <<>>)

(***************************************************************************)
(* pandas frames of object columns: the column labels, the row labels and  *)
(* the rows of cells                                                       *)
(***************************************************************************)
DataFrame(columns, index, rows) == [columns |-> columns, index |-> index, rows |-> rows]

\* pd.DataFrame()
EmptyDataFrame == DataFrame(<<>>, <<>>, <<>>)

\* the cells of the column at position j, top to bottom
Series(rows, j) == [r \in DOMAIN rows |-> rows[r][j]]

\* df[column] is a frame, not a series, when the label occurs more than once
Duplicated(columns, column) == Cardinality({j \in DOMAIN columns : columns[j] = column}) > 1

\* df.loc[df[column] == original_value, column] = cleaned_value, column at position j
SetWhere(rows, j, original_value, cleaned_value) ==
    [r \in DOMAIN rows |->
        [c \in DOMAIN rows[r] |->
            IF c = j /\ PyEq(rows[r][c], original_value) THEN cleaned_value ELSE rows[r][c]]]

\* df.loc[row_index, column] = new_value: the cell is set under every column of
\* that label; a row label the frame does not have is appended, NaN elsewhere
SetCell(df, row_index, column, new_value) ==
    IF row_index \in Range(df.index)
    THEN DataFrame(df.columns, df.index,
                   [r \in DOMAIN df.rows |->
                       [c \in DOMAIN df.columns |->
                           IF df.index[r] = row_index /\ df.columns[c] = column
                           THEN new_value ELSE df.rows[r][c]]])
    ELSE DataFrame(df.columns, Append(df.index, row_index),
                   Append(df.rows, [c \in DOMAIN df.columns |->
                                       IF df.columns[c] = column THEN new_value ELSE NaN]))

(***************************************************************************)
(* DataCleanerAgent.clean_data                                             *)
(***************************************************************************)
\* lines 92-93: cleaned_df.rename(columns={source_column: target_column})
RenameStep(columns, mapping) ==
    [j \in DOMAIN columns |->
        IF columns[j] = mapping.source_column THEN mapping.target_column ELSE columns[j]]

\* lines 90-93: the mappings are applied in list order
RECURSIVE RenameLoop(_, _, _)
RenameLoop(columns, mappings, i) ==
    IF i > Len(mappings) THEN columns
    ELSE RenameLoop(RenameStep(columns, mappings[i]), mappings, i + 1)

\* lines 102-104: the column's results are written back one after the other
RECURSIVE ApplyResults(_, _, _, _)
ApplyResults(rows, j, results, k) ==
    IF k > Len(results) THEN rows
    ELSE ApplyResults(SetWhere(rows, j, results[k].original_value, results[k].cleaned_value),
                      j, results, k + 1)

WithResults(acc, j, column_results) ==
    [acc EXCEPT !.rows = ApplyResults(@, j, column_results, 1),
                !.cleaning_results = @ \o column_results]

\* lines 97-104: one column; cleaned_df[column].unique() raises AttributeError
\* when the label is duplicated
CleanStep(acc, columns, j) ==
    IF acc.raised \/ columns[j] \notin DOMAIN cleaning_rules THEN acc
    ELSE IF Duplicated(columns, columns[j]) THEN [acc EXCEPT !.raised = TRUE]
    ELSE WithResults(acc, j, _clean_column(Series(acc.rows, j), columns[j]))

\* lines 96-104: for column in cleaned_df.columns
RECURSIVE CleanLoop(_, _, _)
CleanLoop(acc, columns, j) ==
    IF j > Len(columns) THEN acc
    ELSE CleanLoop(CleanStep(acc, columns, j), columns, j + 1)

\* line 106: return cleaned_df, cleaning_results
CleanReturn(index, columns, acc) ==
    [raised |-> acc.raised, cleaned_df |-> DataFrame(columns, index, acc.rows),
     cleaning_results |-> acc.cleaning_results]

CleanRenamed(df, columns) ==
    CleanReturn(df.index, columns,
                CleanLoop([raised |-> FALSE, rows |-> df.rows, cleaning_results |-> <<>>],
                          columns, 1))

\* lines 84-106
clean_data(df, mappings) == CleanRenamed(df, RenameLoop(df.columns, mappings, 1))

(***************************************************************************)
(* LLMFixAgent: validation and fix suggestions                             *)
(***************************************************************************)
Valid == [valid |-> TRUE, error_type |-> "", message |-> ""]
Invalid(error_type, message) == [valid |-> FALSE, error_type |-> error_type, message |-> message]

\* lines 224-228
_validate_order_id(value) ==
    IF ~re_match(OrderIdPattern, value)
    THEN Invalid("format", "Order ID must be in format ORD-XXXX") ELSE Valid

\* lines 230-236
_validate_date(value) ==
    IF strptime(value, "%Y-%m-%d")[1] THEN Valid
    ELSE Invalid("format", "Date must be in YYYY-MM-DD format")

\* lines 238-242
_validate_customer_id(value) ==
    IF ~re_match(CustomerIdPattern, value)
    THEN Invalid("format", "Customer ID must be in format CUST-XXXX") ELSE Valid

\* lines 244-248
_validate_email(value) ==
    IF ~re_match(EmailPattern, value) THEN Invalid("format", "Invalid email format") ELSE Valid

\* lines 250-254
_validate_phone(value) ==
    IF ~re_match(PhonePattern, value)
    THEN Invalid("format", "Phone must be in format +91-XXXXXXXXXX") ELSE Valid

\* lines 256-260
_validate_postal_code(value) ==
    IF ~re_match(PostalCodePattern, value)
    THEN Invalid("format", "Postal code must be 6 digits") ELSE Valid

QuantityResult(qty) ==
    IF ~qty[1] THEN Invalid("format", "Quantity must be a number")
    ELSE IF qty[2] <= 0 THEN Invalid("range", "Quantity must be positive")
    ELSE Valid

\* lines 262-269
_validate_quantity(value) == QuantityResult(int(value))

PriceResult(price) ==
    IF ~price[1] THEN Invalid("format", "Price must be a number")
    ELSE IF price[2][1] < 0 THEN Invalid("range", "Price cannot be negative")
    ELSE Valid

\* lines 271-278
_validate_price(value) == PriceResult(float(value))

\* lines 280-283
_validate_currency(value) ==
    IF upper(value) \notin {"INR", "₹", "RS"}
    THEN Invalid("value", "Currency must be INR, ₹, or Rs") ELSE Valid

PercentageResult(pct) ==
    IF ~pct[1] THEN Invalid("format", "Percentage must be a number")
    ELSE IF ~(FracGE(pct[2], Zero) /\ FracGE(One, pct[2]))
    THEN Invalid("range", "Percentage must be between 0 and 1")
    ELSE Valid

\* lines 285-292
_validate_percentage(value) == PercentageResult(float(value))

\* lines 294-298
_validate_gstin(value) ==
    IF ~re_match(GstinPattern, value) THEN Invalid("format", "Invalid GSTIN format") ELSE Valid

\* lines 195-221: the validator of the column, called with str(value)
_validate_value(value, column_name) ==
    IF column_name = "order_id" THEN _validate_order_id(str(value))
    ELSE IF column_name = "order_date" THEN _validate_date(str(value))
    ELSE IF column_name = "customer_id" THEN _validate_customer_id(str(value))
    ELSE IF column_name = "email" THEN _validate_email(str(value))
    ELSE IF column_name = "phone" THEN _validate_phone(str(value))
    ELSE IF column_name = "postal_code" THEN _validate_postal_code(str(value))
    ELSE IF column_name = "quantity" THEN _validate_quantity(str(value))
    ELSE IF column_name \in {"unit_price", "shipping_fee", "total_amount"}
    THEN _validate_price(str(value))
    ELSE IF column_name = "currency" THEN _validate_currency(str(value))
    ELSE IF column_name \in {"discount_pct", "tax_pct"} THEN _validate_percentage(str(value))
    ELSE IF column_name = "tax_id" THEN _validate_gstin(str(value))
    ELSE [valid |-> TRUE, error_type |-> "unknown", message |-> ""]

\* lines 183-191: the error of one cell, if it has one
CellError(validation_result, column_name, idx, value) ==
    IF validation_result.valid THEN <<>>
    ELSE <<[column |-> column_name, row_index |-> idx, value |-> value,
            error_type |-> validation_result.error_type,
            message |-> validation_result.message]>>

\* lines 179-191: for idx, value in series.items()
RECURSIVE _validate_column(_, _, _, _)
_validate_column(series, index, column_name, r) ==
    IF r > Len(series) THEN <<>>
    ELSE (IF isna(series[r]) THEN <<>>
          ELSE CellError(_validate_value(series[r], column_name), column_name, index[r],
                         series[r]))
         \o _validate_column(series, index, column_name, r + 1)

\* lines 169-171: one column; on a duplicated label df[column] is a frame and
\* `if pd.isna(value)` raises ValueError
ValidateStep(acc, df, j) ==
    IF acc.raised \/ df.columns[j] \notin canonical_schema THEN acc
    ELSE IF Duplicated(df.columns, df.columns[j]) THEN [acc EXCEPT !.raised = TRUE]
    ELSE [acc EXCEPT !.errors = @ \o _validate_column(Series(df.rows, j), df.index,
                                                       df.columns[j], 1)]

\* lines 168-171: for column in df.columns
RECURSIVE ValidateLoop(_, _, _)
ValidateLoop(acc, df, j) ==
    IF j > Len(df.columns) THEN acc
    ELSE ValidateLoop(ValidateStep(acc, df, j), df, j + 1)

\* lines 164-173
validate_data_quality(df) == ValidateLoop([raised |-> FALSE, errors |-> <<>>], df, 1)

\* lines 38-46: the suggestion for one error, if its column is canonical and a fix was found
ErrorSuggestion(fixes, error, reply) ==
    IF error.column \in canonical_schema
    THEN _generate_single_fix(fixes, error.column, error.value, error.error_type,
                              error.row_index, reply)
    ELSE <<>>

\* lines 33-48: replies[i] is what the LLM does if it is asked about error i
RECURSIVE generate_fix_suggestions(_, _, _, _)
generate_fix_suggestions(fixes, validation_errors, replies, i) ==
    IF i > Len(validation_errors) THEN <<>>
    ELSE ErrorSuggestion(fixes, validation_errors[i], replies[i])
         \o generate_fix_suggestions(fixes, validation_errors, replies, i + 1)

(***************************************************************************)
(* SchemaMapperAgent.map_columns and get_unmapped_columns                  *)
(***************************************************************************)
\* lines 59-60: if best_match: mappings.append(best_match)
Appended(best_match) == IF best_match = NoMapping THEN <<>> ELSE <<best_match>>

\* lines 53-62: replies[i] is what the LLM does if it is asked about column i
RECURSIVE map_columns(_, _, _)
map_columns(columns, replies, i) ==
    IF i > Len(columns) THEN <<>>
    ELSE Appended(_find_best_match(columns[i], replies[i]))
         \o map_columns(columns, replies, i + 1)

\* lines 157-160
get_unmapped_columns(columns, mappings) ==
    SelectSeq(columns, LAMBDA col : \A k \in DOMAIN mappings : mappings[k].source_column # col)

(***************************************************************************)
(* Stack A: DataProcessingGraph                                            *)
(***************************************************************************)
\* lines 232-245: the state process_data hands to the graph; manual_mappings
\* is the dict as its (source, target) items, applied_fixes the list of dicts
DataProcessingState(df, manual_mappings, applied_fixes) ==
    [raw_dataframe |-> df, canonical_schema |-> canonical_schema,
     column_mappings |-> <<>>, unmapped_columns |-> <<>>,
     cleaned_dataframe |-> EmptyDataFrame, cleaning_results |-> <<>>,
     validation_errors |-> <<>>, fix_suggestions |-> <<>>,
     manual_mappings |-> manual_mappings, applied_fixes |-> applied_fixes,
     final_dataframe |-> EmptyDataFrame, processing_summary |-> EmptyDict]

\* langgraph.graph.END
END == "end"

\* line 62
entry_point == "map_columns"

\* lines 64-66 and 79-81: add_edge
edges_ManualToFinalize ==
    [map_columns |-> "clean_data", clean_data |-> "validate_data",
     validate_data |-> "generate_fixes", apply_manual_mappings |-> "finalize_output",
     apply_fixes |-> "finalize_output", finalize_output |-> END]
edges ==
    [map_columns |-> "clean_data", clean_data |-> "validate_data",
     validate_data |-> "generate_fixes", apply_manual_mappings |-> "apply_fixes",
     apply_fixes |-> "finalize_output", finalize_output |-> END]

\* lines 69-77: add_conditional_edges("generate_fixes", ...)
conditional_edges ==
    [manual_mapping |-> "apply_manual_mappings", apply_fixes |-> "apply_fixes",
     finalize |-> "finalize_output"]

\* lines 137-147
_should_apply_manual_mappings_FixesFirst(st) ==
    IF st.fix_suggestions # <<>> THEN "apply_fixes"
    ELSE IF st.unmapped_columns # <<>> /\ st.manual_mappings = <<>> THEN "manual_mapping"
    ELSE "finalize"
_should_apply_manual_mappings(st) ==
    IF st.unmapped_columns # <<>> /\ st.manual_mappings = <<>> THEN "manual_mapping"
    ELSE IF st.fix_suggestions # <<>> THEN "apply_fixes"
    ELSE "finalize"

\* the node the compiled graph runs after `node` has returned state st
NextNode(node, st) ==
    IF node = "generate_fixes" THEN conditional_edges[_should_apply_manual_mappings(st)]
    ELSE edges[node]

\* what a node call did: it raised, or it returned this state
NodeResult(raised, st) == [raised |-> raised, state |-> st]

\* lines 96-97
MappedState(st, mappings) ==
    [st EXCEPT !.column_mappings = mappings,
               !.unmapped_columns = get_unmapped_columns(st.raw_dataframe.columns, mappings)]

\* lines 85-99
_map_columns_node(st, replies) ==
    NodeResult(FALSE, MappedState(st, map_columns(st.raw_dataframe.columns, replies, 1)))

\* lines 107-110, 170-172: cleaned_df, cleaning_results = self.data_cleaner.clean_data(...)
CleanedState(st, cleaned) ==
    IF cleaned.raised THEN NodeResult(TRUE, st)
    ELSE NodeResult(FALSE, [st EXCEPT !.cleaned_dataframe = cleaned.cleaned_df,
                                      !.cleaning_results = cleaned.cleaning_results])

\* lines 101-112
_clean_data_node(st) == CleanedState(st, clean_data(st.raw_dataframe, st.column_mappings))

\* lines 119-121
ValidatedState(st, validated) ==
    IF validated.raised THEN NodeResult(TRUE, st)
    ELSE NodeResult(FALSE, [st EXCEPT !.validation_errors = validated.errors])

\* lines 114-123
_validate_data_node(st) == ValidatedState(st, validate_data_quality(st.cleaned_dataframe))

\* lines 125-135: replies[i] is what the LLM does if it is asked about error i
_generate_fixes_node(st, fixes, replies) ==
    NodeResult(FALSE, [st EXCEPT !.fix_suggestions =
                           generate_fix_suggestions(fixes, st.validation_errors, replies, 1)])

\* lines 157-164: one MappingResult per item of manual_mappings
ManualMappings(manual_mappings) ==
    [k \in DOMAIN manual_mappings |->
        MappingResult(manual_mappings[k][1], manual_mappings[k][2], One, "manual")]

\* lines 166-172
WithMappings(st, existing_mappings) ==
    CleanedState([st EXCEPT !.column_mappings = existing_mappings],
                 clean_data(st.raw_dataframe, existing_mappings))

\* lines 149-174
_apply_manual_mappings_node(st) ==
    IF st.manual_mappings # <<>>
    THEN WithMappings(st, st.column_mappings \o ManualMappings(st.manual_mappings))
    ELSE NodeResult(FALSE, st)

\* lines 184-189: one accepted fix written into the frame
ApplyFix(df, fix) ==
    IF fix.column \in Range(df.columns)
    THEN SetCell(df, fix.row_index, fix.column, fix.suggested_value)
    ELSE df

\* lines 183-189: for fix in applied_fixes
RECURSIVE ApplyFixes(_, _, _)
ApplyFixes(df, applied_fixes, i) ==
    IF i > Len(applied_fixes) THEN df
    ELSE ApplyFixes(ApplyFix(df, applied_fixes[i]), applied_fixes, i + 1)

\* lines 195-203
AppliedSuggestion(fix) ==
    FixSuggestion(fix.column, fix.row_index, fix.original_value, fix.suggested_value,
                  fix.reason, fix.confidence, "applied")

\* lines 194-204: the learned-fix store after every accepted fix was promoted
RECURSIVE PromoteFixes(_, _, _)
PromoteFixes(fixes, applied_fixes, i) ==
    IF i > Len(applied_fixes) THEN fixes
    ELSE PromoteFixes(promote_fix(fixes, AppliedSuggestion(applied_fixes[i])),
                      applied_fixes, i + 1)

\* lines 176-206: the state the node returns
_apply_fixes_node(st) ==
    IF st.applied_fixes # <<>>
    THEN NodeResult(FALSE, [st EXCEPT !.cleaned_dataframe =
                                          ApplyFixes(@, st.applied_fixes, 1)])
    ELSE NodeResult(FALSE, st)

\* lines 213-222
Summary(st) ==
    [total_rows |-> Len(st.cleaned_dataframe.index),
     total_columns |-> Len(st.cleaned_dataframe.columns),
     mapped_columns |-> Len(st.column_mappings),
     unmapped_columns |-> Len(st.unmapped_columns),
     cleaning_rules_applied |-> Len(st.cleaning_results),
     validation_errors |-> Len(st.validation_errors),
     fix_suggestions |-> Len(st.fix_suggestions),
     applied_fixes |-> Len(st.applied_fixes)]

\* lines 208-227
_finalize_output_node(st) ==
    NodeResult(FALSE, [st EXCEPT !.final_dataframe = st.cleaned_dataframe,
                                 !.processing_summary = Summary(st)])

\* lines 250-258: what process_data returns from the final state
process_data(final_state) ==
    [final_dataframe |-> final_state.final_dataframe,
     column_mappings |-> final_state.column_mappings,
     unmapped_columns |-> final_state.unmapped_columns,
     cleaning_results |-> final_state.cleaning_results,
     validation_errors |-> final_state.validation_errors,
     fix_suggestions |-> final_state.fix_suggestions,
     processing_summary |-> final_state.processing_summary]

(***************************************************************************)
(* SchemaMapperAgent.map_columns, one source column at a time              *)
(***************************************************************************)
AllKeywords == UNION {Range(mapping_patterns[i].patterns) : i \in DOMAIN mapping_patterns}

\* the header names tried: every canonical name and keyword, spelling variants
\* of some of them, and names that only the fuzzy or semantic stage can place
SourceColumns ==
    canonical_schema \cup AllKeywords \cup
    {" Email ", "PHONE", "Customer", "Client", "\tRegion", "NAME ", "Tax",
     "my_product", "xx_country", "created_on", "billing123",
     "products", "custom", "emails", "order no", "order number", "e mail",
     "Cust ID", "zzz", "", " ", "ordered by", "shipping_cost"}

LLMReplies ==
    {LLMReply(TRUE, "")} \cup
    {LLMReply(FALSE, c) : c \in {"email|0.9", " phone | 0.6 ", "city|0.65",
                                 "order_id", "email|high", "nonsense|0.9",
                                 "email|0.9|x", "email|1.5"}}

MapperAInit ==
    /\ comp = "mapper_agent"
    /\ pc = "call"
    /\ source \in SourceColumns
    /\ result = NoMapping
    /\ MapperBUnused /\ FixUnused /\ GraphUnused /\ LaterUnused

\* map_columns line 58: best_match = self._find_best_match(source_col)
FindBestMatch ==
    /\ comp = "mapper_agent"
    /\ pc = "call"
    /\ \E reply \in LLMReplies : result' = _find_best_match(source, reply)
    /\ pc' = "returned"
    /\ UNCHANGED <<comp, laterVars, source, mapperBVars, fixVars, graphVars>>

\* map_columns line 57: the loop moves on to the next source column
NextSourceColumn ==
    /\ comp = "mapper_agent"
    /\ pc = "returned"
    /\ \E s \in SourceColumns : source' = s
    /\ result' = NoMapping
    /\ pc' = "call"
    /\ UNCHANGED <<comp, laterVars, mapperBVars, fixVars, graphVars>>

MapperANext == FindBestMatch \/ NextSourceColumn

SpecMapperA == MapperAInit /\ [][MapperANext]_vars

source_lower == strip(lower(source))

\* C7 (as stated): a source name that equals canonical column C or one of C's
\* keywords is mapped to C, exact, confidence 1.0 -- for every such C
C7_ExactToEveryMatch ==
    pc = "returned" =>
        \A i \in DOMAIN mapping_patterns :
            ExactHit(source_lower, mapping_patterns[i]) =>
                /\ result.target_column = mapping_patterns[i].col
                /\ FracEQ(result.confidence, One)
                /\ result.mapping_type = "exact"

\* C7 (amended): such a source name is mapped, exact and with confidence 1.0,
\* to the first column in the table's declared order that it equals or whose
\* keywords list it
C7_ExactToFirstMatch ==
    pc = "returned" =>
        \A i \in DOMAIN mapping_patterns :
            (/\ ExactHit(source_lower, mapping_patterns[i])
             /\ \A j \in 1..(i - 1) : ~ExactHit(source_lower, mapping_patterns[j]))
            => /\ result.source_column = source
               /\ result.target_column = mapping_patterns[i].col
               /\ FracEQ(result.confidence, One)
               /\ result.mapping_type = "exact"

\* a keyword shared by two columns has been mapped
C7_Witness ==
    /\ pc = "returned"
    /\ source = "Customer"
    /\ result.target_column = "customer_id"
    /\ result.mapping_type = "exact"

NoExact == \A i \in DOMAIN mapping_patterns : ~ExactHit(source_lower, mapping_patterns[i])
BestFuzzyScore == _fuzzy_match(source_lower)[2]

\* C8 (as stated): with no exact match and a best fuzzy score of exactly 0.7
\* the column is accepted as a fuzzy mapping with confidence 0.7
C8_ThresholdAccepted ==
    (pc = "returned" /\ NoExact /\ FracEQ(BestFuzzyScore, Frac(7, 10))) =>
        /\ result.mapping_type = "fuzzy"
        /\ FracEQ(result.confidence, Frac(7, 10))

\* C8 (amended): with no exact match the fuzzy stage accepts the column, as a
\* fuzzy mapping carrying the best score, iff that score is strictly above 0.7;
\* a best score of exactly 0.7 is not accepted by the fuzzy stage
C8_StrictlyAboveThreshold ==
    (pc = "returned" /\ NoExact) =>
        /\ (result.mapping_type = "fuzzy") = FracGT(BestFuzzyScore, Frac(7, 10))
        /\ result.mapping_type = "fuzzy" =>
              /\ FracEQ(result.confidence, BestFuzzyScore)
              /\ result.target_column = _fuzzy_match(source_lower)[1]

\* a column scoring exactly 0.7 went through the mapper and was not taken as fuzzy
C8_Witness ==
    /\ pc = "returned"
    /\ source = "my_product"
    /\ NoExact
    /\ FracEQ(BestFuzzyScore, Frac(7, 10))
    /\ result.mapping_type # "fuzzy"

(***************************************************************************)
(* SchemaMapper.map_columns, one /map-schema request at a time             *)
(***************************************************************************)
\* canonical column lists a schema file may supply
CanonicalLists ==
    {<<"customer_id", "customer_name", "email", "phone">>,
     <<"customer_name", "name", "annual_revenue", "Email">>,
     <<"city", "state", "tax_id">>,
     <<"sku", "qty">>}

\* header rows of uploaded files
SourceLists ==
    {<<"Email", "name">>, <<" NAME ", "zzz">>, <<"e_mail", "tel">>,
     <<"annual_revenue", "Phone No">>, <<"revenue", "Town">>, <<"id", "cust">>,
     <<"Customer Name", "EMAIL", "region">>, <<"mail", "qq">>, <<"s1", "q9z">>}

\* custom_mappings dicts, as their items in insertion order
CustomMappingSets ==
    {<<>>,
     <<<<"Email", "phone">>>>,
     <<<<"name", "customer_id">>, <<"zzz", "email">>>>,
     <<<<"e_mail", "name">>, <<"mail", "no_such_column">>>>,
     <<<<"absent", "email">>, <<"annual_revenue", "customer_name">>>>,
     <<<<"Town", "state">>, <<"id", "customer_name">>, <<"EMAIL", "customer_name">>>>}

Matchers == {"difflib", "levenshtein"}

MapperBInit ==
    /\ comp = "mapper_service"
    /\ pc = "call"
    /\ matcher \in Matchers
    /\ source_columns \in SourceLists
    /\ canonical_columns \in CanonicalLists
    /\ custom_mappings \in CustomMappingSets
    /\ map_result = Unused
    /\ MapperAUnused /\ FixUnused /\ GraphUnused /\ LaterUnused

\* main.py map_schema: mapping_result = schema_mapper.map_columns(...)
MapColumns ==
    /\ comp = "mapper_service"
    /\ pc = "call"
    /\ map_result' = SchemaMapper_map_columns(source_columns, canonical_columns,
                                              custom_mappings, matcher)
    /\ pc' = "returned"
    /\ UNCHANGED <<comp, laterVars, mapperAVars, matcher, source_columns, canonical_columns,
                   custom_mappings, fixVars, graphVars>>

\* the next /map-schema request arrives
NextRequest ==
    /\ comp = "mapper_service"
    /\ pc = "returned"
    /\ source_columns' \in SourceLists
    /\ canonical_columns' \in CanonicalLists
    /\ custom_mappings' \in CustomMappingSets
    /\ map_result' = Unused
    /\ pc' = "call"
    /\ UNCHANGED <<comp, laterVars, mapperAVars, matcher, fixVars, graphVars>>

MapperBNext == MapColumns \/ NextRequest

SpecMapperB == MapperBInit /\ [][MapperBNext]_vars

\* the custom mappings that name an uploaded column and a canonical column
EffectiveCustom ==
    {k \in DOMAIN custom_mappings :
        /\ custom_mappings[k][1] \in Range(source_columns)
        /\ custom_mappings[k][2] \in Range(canonical_columns)}

\* C9: every custom mapping whose source is an uploaded column and whose target
\* is a canonical column is in the result with exactly that target and
\* confidence 1.0, and automatic matching was never run on that column
C9_CustomOverrideWins ==
    (comp = "mapper_service" /\ pc = "returned") =>
        \A k \in EffectiveCustom :
            LET s == custom_mappings[k][1]
            IN  /\ s \in DOMAIN map_result.mapping
                /\ map_result.mapping[s] = custom_mappings[k][2]
                /\ FracEQ(map_result.confidence_scores[s], One)
                /\ \A c \in DOMAIN map_result.calls : map_result.calls[c][1] # s
                /\ s \notin Range(map_result.unmapped_columns)

\* an override that contradicts what automatic matching picks for the column
C9_Witness ==
    /\ comp = "mapper_service" /\ pc = "returned"
    /\ source_columns = <<"Email", "name">>
    /\ canonical_columns = <<"customer_id", "customer_name", "email", "phone">>
    /\ custom_mappings = <<<<"Email", "phone">>>>
    /\ map_result.mapping["Email"] = "phone"
    /\ SchemaMapper_find_best_match("Email", canonical_columns, matcher)[1] = "email"

\* C10: each _find_best_match call returns the (first) listed canonical name the
\* trimmed, lower-cased source equals, with confidence 1.0; failing that the
\* (first) listed column that has the source among its synonyms, with 0.9; and
\* the best similarity score decides only when neither equality holds
C10_ExactThenSynonymThenFuzzy ==
    (comp = "mapper_service" /\ pc = "returned") =>
        \A c \in DOMAIN map_result.calls :
            LET src == strip(lower(map_result.calls[c][1]))
                found == map_result.calls[c][2]
                exact == ExactMatches(src, canonical_columns)
                synonym == SynonymMatches(src, canonical_columns)
            IN  IF Len(exact) > 0
                THEN found = <<exact[1], Frac(1, 1)>>
                ELSE IF Len(synonym) > 0
                THEN found = <<synonym[1], Frac(9, 10)>>
                ELSE LET best == FuzzyBest(<<None, 0>>, src, canonical_columns, 1, matcher)
                     IN  found = <<best[1], Frac(best[2], 100)>>

\* one request in which a name that is both a listed canonical name and a
\* synonym was matched exactly, and another name was matched as a synonym
C10_Witness ==
    /\ comp = "mapper_service" /\ pc = "returned"
    /\ canonical_columns = <<"customer_name", "name", "annual_revenue", "Email">>
    /\ <<" NAME ", <<"name", Frac(1, 1)>>>> \in Range(map_result.calls)

\* the uploaded column is the source of a custom mapping that took effect
Consumed(s) == \E k \in EffectiveCustom : custom_mappings[k][1] = s

\* C11: every uploaded column that no custom mapping consumed is in exactly one
\* of mapping and unmapped_columns: in mapping, with the best match and its
\* confidence, iff that confidence is at least 0.4 (0.4 itself included),
\* and in unmapped_columns otherwise
C11_MappedIffAtLeastThreshold ==
    (comp = "mapper_service" /\ pc = "returned") =>
        \A i \in DOMAIN source_columns :
            LET s == source_columns[i]
                found == SchemaMapper_find_best_match(s, canonical_columns, matcher)
                mapped == s \in DOMAIN map_result.mapping
                unmapped == s \in Range(map_result.unmapped_columns)
            IN  ~Consumed(s) =>
                    /\ mapped # unmapped
                    /\ mapped <=> found[2][1] * 10 >= 4 * found[2][2]
                    /\ mapped => /\ map_result.mapping[s] = found[1]
                                 /\ map_result.confidence_scores[s] = found[2]

\* a request in which one column scored exactly 40 and was mapped at 0.4 and
\* another scored 33 and was reported unmapped
C11_Witness ==
    /\ comp = "mapper_service" /\ pc = "returned"
    /\ source_columns = <<"s1", "q9z">>
    /\ canonical_columns = <<"sku", "qty">>
    /\ custom_mappings = <<>>
    /\ map_result.mapping = [x \in {"s1"} |-> "sku"]
    /\ map_result.confidence_scores["s1"] = <<40, 100>>
    /\ map_result.unmapped_columns = <<"q9z">>

(***************************************************************************)
(* LLMFixAgent: promote_fix and _generate_single_fix calls on one agent    *)
(***************************************************************************)
\* promote_fix calls in one behaviour
MaxPromotions == 2

\* the accepted fixes promote_fix is called with (_apply_fixes_node lines 194-204)
AppliedFix(column, original_value, suggested_value, reason, confidence) ==
    FixSuggestion(column, 0, original_value, suggested_value, reason, confidence, "applied")

PromotedFixes ==
    {AppliedFix("email", PyStr("bad"), PyStr("bad@example.com"), "domain added", Frac(9, 10)),
     AppliedFix("email", PyStr("bad"), PyStr("bad@mail.com"), "guess", Frac(1, 2)),
     AppliedFix("email", PyStr("format_bad"), PyStr("bad@example.com"), "prefix cut",
                Frac(4, 5)),
     AppliedFix("postal_code", PyInt("12345"), PyStr("012345"), "padded", Frac(7, 10)),
     AppliedFix("postal_code", PyStr("12345"), PyStr("123450"), "typed", Frac(3, 5)),
     AppliedFix("order_id", PyStr("7"), PyStr("ORD-7"), "prefixed", Frac(9, 10))}

\* validation errors of _validate_column (lines 185-191): column, value, error_type
ValidationErrors ==
    {<<"email", PyStr("bad"), "format">>,
     <<"email", PyStr("format_bad"), "format">>,
     <<"postal_code", PyInt("12345"), "format">>,
     <<"order_id", PyStr("7"), "format">>}

FixReplies ==
    {LLMReply(TRUE, "")} \cup
    {LLMReply(FALSE, c) : c \in
        {"SUGGESTED_VALUE: fixed\nREASON: looks wrong\nCONFIDENCE: 0.8",
         " SUGGESTED_VALUE: fixed\nREASON: no number\nCONFIDENCE: high\n",
         "SUGGESTED_VALUE: fixed\nCONFIDENCE: 0.8",
         "I cannot help with that."}}

FixAgentInit ==
    /\ comp = "fix_agent"
    /\ pc = "idle"
    /\ learned_fixes = EmptyDict
    /\ promotions = <<>>
    /\ request = Unused
    /\ suggestion = Nothing
    /\ MapperAUnused /\ MapperBUnused /\ GraphUnused /\ LaterUnused

\* llm_fix_agent.promote_fix(fix_suggestion)
PromoteFix ==
    /\ comp = "fix_agent"
    /\ Len(promotions) < MaxPromotions
    /\ \E fix \in PromotedFixes :
        /\ learned_fixes' = promote_fix(learned_fixes, fix)
        /\ promotions' = Append(promotions, fix)
    /\ pc' = "promoted"
    /\ UNCHANGED <<comp, laterVars, request, suggestion, mapperAVars, mapperBVars, graphVars>>

\* generate_fix_suggestions line 44: self._generate_single_fix(column, value, ...)
GenerateSingleFix ==
    /\ comp = "fix_agent"
    /\ \E error \in ValidationErrors, row_index \in {0, 1}, reply \in FixReplies :
        /\ request' = [column |-> error[1], value |-> error[2], error_type |-> error[3],
                       row_index |-> row_index]
        /\ suggestion' = _generate_single_fix(learned_fixes, error[1], error[2], error[3],
                                              row_index, reply)
    /\ pc' = "generated"
    /\ UNCHANGED <<comp, laterVars, learned_fixes, promotions, mapperAVars, mapperBVars, graphVars>>

FixAgentNext == PromoteFix \/ GenerateSingleFix

SpecFixAgent == FixAgentInit /\ [][FixAgentNext]_vars

\* C5: once promote_fix has been called for a fix on (column, original_value),
\* a fix generated for an error on that column and value is the learned fix:
\* fix_type 'learned', the reason prefixed 'Learned fix: '
C5_PromotedFixIsReturned ==
    (comp = "fix_agent" /\ pc = "generated") =>
        \A i \in DOMAIN promotions :
            (promotions[i].column = request.column
             /\ promotions[i].original_value = request.value) =>
                /\ Len(suggestion) = 1
                /\ suggestion[1].fix_type = "learned"
                /\ StartsWith(suggestion[1].reason, "Learned fix: ")

\* the promotions of the pair (column, original_value), oldest first
PromotionsOf(column, original_value) ==
    SelectSeq(promotions, LAMBDA p : p.column = column /\ p.original_value = original_value)

PromotedPairs == {<<promotions[i].column, promotions[i].original_value>> : i \in DOMAIN promotions}

\* C6: the store holds exactly one entry per distinct promoted pair
\* (column, original_value); its usage_count is the number of promotions of
\* the pair and its other fields are those of the pair's latest promotion
C6_OneEntryPerPromotedPair ==
    comp = "fix_agent" =>
        /\ Cardinality(DOMAIN learned_fixes) = Cardinality(PromotedPairs)
        /\ \A pair \in PromotedPairs :
            LET of == PromotionsOf(pair[1], pair[2])
                entry == learned_fixes[PromoteKey(pair[1], pair[2])]
            IN  /\ entry.usage_count = Len(of)
                /\ entry.suggested_value = of[Len(of)].suggested_value
                /\ entry.reason = of[Len(of)].reason
                /\ entry.confidence = of[Len(of)].confidence

(***************************************************************************)
(* DataProcessingGraph: process_data calls on one graph, node by node.     *)
(* The graph starts as DataProcessingGraph.__init__ (lines 39-46) is       *)
(* written to leave it: the three agents built, the learned-fix store      *)
(* empty.  (As the source stands, building the DataCleanerAgent raises,    *)
(* see cleaning_rules.)                                                    *)
(***************************************************************************)
\* process_data calls in one behaviour
MaxRuns == 2

Nodes ==
    {"map_columns", "clean_data", "validate_data", "generate_fixes",
     "apply_manual_mappings", "apply_fixes", "finalize_output"}

\* a frame of text cells with the default row labels 0..n-1
TextFrame(columns, texts) ==
    DataFrame(columns, [r \in DOMAIN texts |-> r - 1],
              [r \in DOMAIN texts |-> [c \in DOMAIN texts[r] |-> PyStr(texts[r][c])]])

\* the uploads process_data is called with
Datasets ==
    {TextFrame(<<"Email", "zzz">>, <<<<"bad", "x">>, <<"a@b.co", "y">>>>),
     TextFrame(<<"email">>, <<<<"bad">>, <<"a@b.co">>>>),
     TextFrame(<<"order_id", "phone">>, <<<<"ORD-1", "9876543210">>>>),
     TextFrame(<<"email", "e-mail">>, <<<<"a@b.co", "c@d.org">>>>),
     TextFrame(<<"city", "town">>, <<<<"Pune", "Pune">>>>)}

\* manual_mappings: None or {}, or a dict, as its items
ManualMappingDicts == {<<>>, <<<<"zzz", "city">>>>}

\* an element of applied_fixes
FixDict(column, row_index, original_value, suggested_value, reason, confidence) ==
    [column |-> column, row_index |-> row_index, original_value |-> original_value,
     suggested_value |-> suggested_value, reason |-> reason, confidence |-> confidence]

\* applied_fixes: None or [], or the fixes the user accepted
AppliedFixLists ==
    {<<>>,
     <<FixDict("email", 0, PyStr("bad"), PyStr("bad@example.com"), "domain added",
               Frac(9, 10))>>,
     <<FixDict("email", 0, PyStr("bad"), PyStr("bad@example.com"), "domain added",
               Frac(9, 10)),
       FixDict("notes", 1, PyStr("n/a"), PyStr(""), "emptied", Frac(1, 2))>>,
     <<FixDict("email", 2, PyStr("n/a"), PyStr("late@example.com"), "row 2", Frac(1, 2))>>}

\* what the LLM does when _semantic_match asks it
MappingReplies == {LLMReply(TRUE, ""), LLMReply(FALSE, "city|0.9")}

\* what the LLM does when _generate_llm_fix asks it
SuggestionReplies ==
    {LLMReply(TRUE, ""),
     LLMReply(FALSE, "SUGGESTED_VALUE: bad@example.com\nREASON: domain added\nCONFIDENCE: 0.9")}

GraphInit ==
    /\ comp = "graph"
    /\ pc = "idle"
    /\ state = Unused
    /\ executed = <<>>
    /\ runs = 0
    /\ learned_fixes = EmptyDict
    /\ promotions = Unused /\ request = Unused /\ suggestion = Unused
    /\ MapperAUnused /\ MapperBUnused /\ LaterUnused

\* process_data lines 232-248: the initial state is built and the graph invoked
ProcessData ==
    /\ comp = "graph"
    /\ pc \in {"idle", END, "raised"}
    /\ runs < MaxRuns
    /\ \E df \in Datasets, manual_mappings \in ManualMappingDicts,
          applied_fixes \in AppliedFixLists :
            state' = DataProcessingState(df, manual_mappings, applied_fixes)
    /\ executed' = <<>>
    /\ runs' = runs + 1
    /\ pc' = entry_point
    /\ UNCHANGED <<comp, laterVars, mapperAVars, mapperBVars, fixVars>>

\* graph.invoke: the node has run; an exception ends the invoke, otherwise the
\* compiled graph moves to the node the edges give
Step(node, r) ==
    /\ executed' = Append(executed, node)
    /\ IF r.raised
       THEN pc' = "raised" /\ state' = state
       ELSE pc' = NextNode(node, r.state) /\ state' = r.state

MapColumnsNode ==
    /\ comp = "graph"
    /\ pc = "map_columns"
    /\ \E replies \in [DOMAIN state.raw_dataframe.columns -> MappingReplies] :
        Step("map_columns", _map_columns_node(state, replies))
    /\ UNCHANGED <<comp, laterVars, runs, mapperAVars, mapperBVars, fixVars>>

CleanDataNode ==
    /\ comp = "graph"
    /\ pc = "clean_data"
    /\ Step("clean_data", _clean_data_node(state))
    /\ UNCHANGED <<comp, laterVars, runs, mapperAVars, mapperBVars, fixVars>>

ValidateDataNode ==
    /\ comp = "graph"
    /\ pc = "validate_data"
    /\ Step("validate_data", _validate_data_node(state))
    /\ UNCHANGED <<comp, laterVars, runs, mapperAVars, mapperBVars, fixVars>>

GenerateFixesNode ==
    /\ comp = "graph"
    /\ pc = "generate_fixes"
    /\ \E replies \in [DOMAIN state.validation_errors -> SuggestionReplies] :
        Step("generate_fixes", _generate_fixes_node(state, learned_fixes, replies))
    /\ UNCHANGED <<comp, laterVars, runs, mapperAVars, mapperBVars, fixVars>>

ApplyManualMappingsNode ==
    /\ comp = "graph"
    /\ pc = "apply_manual_mappings"
    /\ Step("apply_manual_mappings", _apply_manual_mappings_node(state))
    /\ UNCHANGED <<comp, laterVars, runs, mapperAVars, mapperBVars, fixVars>>

\* the node also promotes every accepted fix into the agent's store
ApplyFixesNode ==
    /\ comp = "graph"
    /\ pc = "apply_fixes"
    /\ Step("apply_fixes", _apply_fixes_node(state))
    /\ learned_fixes' = PromoteFixes(learned_fixes, state.applied_fixes, 1)
    /\ UNCHANGED <<comp, laterVars, runs, mapperAVars, mapperBVars, promotions, request, suggestion>>

FinalizeOutputNode ==
    /\ comp = "graph"
    /\ pc = "finalize_output"
    /\ Step("finalize_output", _finalize_output_node(state))
    /\ UNCHANGED <<comp, laterVars, runs, mapperAVars, mapperBVars, fixVars>>

\* one step of the running invoke
NodeStep ==
    \/ MapColumnsNode \/ CleanDataNode \/ ValidateDataNode \/ GenerateFixesNode
    \/ ApplyManualMappingsNode \/ ApplyFixesNode \/ FinalizeOutputNode

GraphNext == ProcessData \/ NodeStep

SpecGraph == GraphInit /\ [][GraphNext]_vars

\* a step of the running invoke, whichever node it runs: among the steps of
\* GraphNext these are the steps of NodeStep
InvokeStep == comp = "graph" /\ pc \in Nodes /\ executed' = Append(executed, pc)

\* graph.invoke runs the nodes one after the other until END or an exception
SpecGraphFair == SpecGraph /\ WF_executed(InvokeStep)

\* the value process_data has returned
Returned == process_data(state)

\* the cells of the frame under the row label and the column label
Cells(df, row_index, column) ==
    {df.rows[r][c] : r \in {x \in DOMAIN df.index : df.index[x] = row_index},
                     c \in {y \in DOMAIN df.columns : df.columns[y] = column}}

\* C1: a run that was given non-empty manual_mappings executes
\* apply_manual_mappings, and the column_mappings it returns hold a mapping of
\* type 'manual' with confidence 1.0 for every given pair
C1_ManualMappingsApplied ==
    (comp = "graph" /\ pc = END /\ state.manual_mappings # <<>>) =>
        /\ "apply_manual_mappings" \in Range(executed)
        /\ \A k \in DOMAIN state.manual_mappings :
            MappingResult(state.manual_mappings[k][1], state.manual_mappings[k][2],
                          One, "manual") \in Range(Returned.column_mappings)

\* C2: when a run has returned, every accepted fix whose column the cleaned
\* dataset has is in the returned final_dataframe (the cell holds the
\* suggested value) and is in the learned-fix store
C2_AcceptedFixesApplied ==
    (comp = "graph" /\ pc = END) =>
        \A k \in DOMAIN state.applied_fixes :
            state.applied_fixes[k].column \in Range(state.cleaned_dataframe.columns) =>
                /\ Cells(Returned.final_dataframe, state.applied_fixes[k].row_index,
                         state.applied_fixes[k].column)
                       = {state.applied_fixes[k].suggested_value}
                /\ PromoteKey(state.applied_fixes[k].column,
                              state.applied_fixes[k].original_value) \in DOMAIN learned_fixes

\* the node that ran, or is about to run, after position k of the invoke
Successor(k) == IF k < Len(executed) THEN executed[k + 1] ELSE pc

Paths ==
    {<<"map_columns", "clean_data", "validate_data", "generate_fixes",
       "apply_manual_mappings", "apply_fixes", "finalize_output">>,
     <<"map_columns", "clean_data", "validate_data", "generate_fixes",
       "apply_fixes", "finalize_output">>,
     <<"map_columns", "clean_data", "validate_data", "generate_fixes",
       "finalize_output">>}

IsPrefix(s, t) == Len(s) <= Len(t) /\ SubSeq(t, 1, Len(s)) = s

\* the nodes of the invoke so far, the one about to run included
Trace == IF pc \in Nodes THEN Append(executed, pc) ELSE executed

InOrder ==
    comp = "graph" =>
        /\ \E p \in Paths : IsPrefix(Trace, p)
        /\ pc = END => executed \in Paths

PyList(items) == [t |-> "list", items |-> items]
PyDict(items) == [t |-> "dict", items |-> items]
\* an instance of a class json knows nothing of, with what str() gives for it
PyObject(text) == [t |-> "object", s |-> text]

JString(s) == [j |-> "string", s |-> s]
JNumber(s) == [j |-> "number", s |-> s]
JArray(items) == [j |-> "array", items |-> items]
JObject(members) == [j |-> "object", members |-> members]

\* isinstance(value, pd.DataFrame)
IsDataFrame(value) == "columns" \in DOMAIN value

\* d[key] of a dict that has the key
DictGet(d, key) == d.items[CHOOSE i \in DOMAIN d.items : d.items[i][1] = key][2]
HasKey(d, key) == \E i \in DOMAIN d.items : d.items[i][1] = key

\* the distinct labels in order of first appearance
FirstLabels(columns) ==
    SelectSeq([j \in DOMAIN columns |->
                  IF \E k \in 1..(j - 1) : columns[k] = columns[j] THEN <<>> ELSE <<columns[j]>>],
              LAMBDA x : x # <<>>)

\* dict(zip(columns, row)): a label that occurs twice keeps its first place
\* and its last cell
RowRecord(columns, row) ==
    PyDict([i \in DOMAIN FirstLabels(columns) |->
               <<PyStr(FirstLabels(columns)[i][1]),
                 row[CHOOSE j \in DOMAIN columns :
                        /\ columns[j] = FirstLabels(columns)[i][1]
                        /\ \A k \in DOMAIN columns : columns[k] = columns[j] => k <= j]>>])

\* line 26: value.to_dict('records')
to_dict_records(df) == PyList([r \in DOMAIN df.rows |-> RowRecord(df.columns, df.rows[r])])

\* lines 24-28: frames become row lists, every other value is kept
Serializable(res) ==
    PyDict([i \in DOMAIN res.items |->
               <<res.items[i][1],
                 IF IsDataFrame(res.items[i][2]) THEN to_dict_records(res.items[i][2])
                 ELSE res.items[i][2]>>])

\* line 33: json.dump(value, f, default=str): a dict key is written as the
\* string of the key, an object json cannot encode as the string str() gives
RECURSIVE json_dump(_)
json_dump(value) ==
    IF value.t = "str" THEN JString(value.s)
    ELSE IF value.t \in {"int", "float"} THEN JNumber(value.s)
    ELSE IF value.t = "list" THEN JArray([i \in DOMAIN value.items |-> json_dump(value.items[i])])
    ELSE IF value.t = "dict"
    THEN JObject([i \in DOMAIN value.items |->
                     <<str(value.items[i][1]), json_dump(value.items[i][2])>>])
    ELSE JString(str(value))

\* json.load's number: an int unless the text has a fraction or is NaN
LoadedNumber(s) == IF Contains(s, ".") \/ s = "nan" THEN PyFloat(s) ELSE PyInt(s)

\* line 47: json.load(f)
RECURSIVE json_load(_)
json_load(doc) ==
    IF doc.j = "string" THEN PyStr(doc.s)
    ELSE IF doc.j = "number" THEN LoadedNumber(doc.s)
    ELSE IF doc.j = "array" THEN PyList([i \in DOMAIN doc.items |-> json_load(doc.items[i])])
    ELSE PyDict([i \in DOMAIN doc.members |->
                    <<PyStr(doc.members[i][1]), json_load(doc.members[i][2])>>])

\* the keys of a list of row dicts, in order of first appearance
RECURSIVE RecordKeys(_, _, _)
RecordKeys(records, r, keys) ==
    IF r > Len(records) THEN keys
    ELSE RecordKeys(records, r + 1,
                    keys \o SelectSeq([i \in DOMAIN records[r].items |-> records[r].items[i][1]],
                                      LAMBDA k : \A n \in DOMAIN keys : keys[n] # k))

\* pd.DataFrame(records) of a list of row dicts: one column per key, a cell
\* NaN where the row has no such key, rows labelled 0..n-1
FrameOfRecords(records, keys) ==
    DataFrame([c \in DOMAIN keys |-> str(keys[c])],
              [r \in DOMAIN records |-> r - 1],
              [r \in DOMAIN records |->
                  [c \in DOMAIN keys |->
                      IF HasKey(records[r], keys[c]) THEN DictGet(records[r], keys[c])
                      ELSE NaN]])

pd_DataFrame(value) == FrameOfRecords(value.items, RecordKeys(value.items, 1, <<>>))

\* lines 50-53: the values under the two keys are made frames again
AsFrames(res) ==
    PyDict([i \in DOMAIN res.items |->
               <<res.items[i][1],
                 IF res.items[i][1] \in {PyStr("final_dataframe"), PyStr("raw_dataframe")}
                 THEN pd_DataFrame(res.items[i][2])
                 ELSE res.items[i][2]>>])

\* lines 17-35, the files after the call: DATA_DIR / f"{session_id}.json"
save_processing_result(files, res, session_id) ==
    DictSet(files, session_id, json_dump(Serializable(res)))

\* lines 38-59: None when there is no such file
load_processing_result(files, session_id) ==
    IF session_id \notin DOMAIN files THEN Nothing
    ELSE Some(AsFrames(json_load(files[session_id])))

(***************************************************************************)
(* Stack B: DataCleaner (backend/services/data_cleaner.py).  A rule set is *)
(* the items of the rules dict, (rule_type, rule_config), in dict order.   *)
(***************************************************************************)
\* series.astype(str): an absent cell becomes the text 'nan'
astype_str(cell) == IF isna(cell) THEN "nan" ELSE str(cell)

\* lines 87-88: .astype(str).str.strip(), then '' replaced by NaN
TrimmedCell(cell) ==
    IF strip(astype_str(cell)) = "" THEN NaN ELSE PyStr(strip(astype_str(cell)))

\* df[column].isnull().sum(), column at position j
NullCount(rows, j) == Cardinality({r \in DOMAIN rows : isna(rows[r][j])})

\* df[column] = df[column].astype(str).str.strip() and the replace after it
Trimmed(rows, j) ==
    [r \in DOMAIN rows |->
        [c \in DOMAIN rows[r] |-> IF c = j THEN TrimmedCell(rows[r][c]) ELSE rows[r][c]]]

\* line 99: df[column] = df[column].astype(str).str.lower()
Lowered(rows, j) ==
    [r \in DOMAIN rows |->
        [c \in DOMAIN rows[r] |->
            IF c = j THEN PyStr(lower(astype_str(rows[r][c]))) ELSE rows[r][c]]]

\* an entry of cleaning_applied
Applied(column, rule, description) ==
    [column |-> column, rule |-> rule, description |-> description]

\* lines 90-95 (and 162-167): reported when the trim made new nulls
TrimReport(acc, column, original_nulls, new_nulls) ==
    IF new_nulls > original_nulls
    THEN [acc EXCEPT !.cleaning_applied =
              Append(@, Applied(column, "trim_whitespace",
                                "Trimmed whitespace, created "
                                    \o IntToStr(new_nulls - original_nulls) \o " nulls"))]
    ELSE acc

\* lines 86-95
TrimWhitespace(acc, column, j) ==
    TrimReport([acc EXCEPT !.rows = Trimmed(@, j)], column,
               NullCount(acc.rows, j), NullCount(Trimmed(acc.rows, j), j))

\* lines 137-138: the rows whose text the pattern does not match at its start
InvalidMask(rows, j, pattern) ==
    {r \in DOMAIN rows : ~re_match(pattern, astype_str(rows[r][j]))}

\* lines 84-138: the branch of one rule; invalid_mask and invalid_count are
\* assigned by a validate_format rule with a non-empty pattern only
RuleBranch(acc, column, j, rule_type, rule_config) ==
    IF rule_type = "trim_whitespace"
    THEN IF rule_config = TRUE THEN TrimWhitespace(acc, column, j) ELSE acc
    ELSE IF rule_type = "normalize_case"
    THEN IF rule_config = "lower"
         THEN [acc EXCEPT !.rows = Lowered(@, j),
                          !.cleaning_applied =
                              Append(@, Applied(column, "normalize_case",
                                                "Converted to lowercase"))]
         ELSE acc
    ELSE IF rule_type = "validate_format"
    THEN IF rule_config # ""
         THEN [acc EXCEPT !.invalid_mask = Some(InvalidMask(acc.rows, j, rule_config))]
         ELSE acc
    ELSE acc

\* the row labels of the rows in the mask, top to bottom
MaskedLabels(index, mask) ==
    SelectSeq([r \in DOMAIN index |-> IF r \in mask THEN <<index[r]>> ELSE <<>>],
              LAMBDA x : x # <<>>)

\* lines 140-146
FormatIssue(column, index, mask) ==
    [column |-> column, issue_type |-> "format_validation", count |-> Cardinality(mask),
     invalid_rows |-> [i \in DOMAIN MaskedLabels(index, mask) |-> MaskedLabels(index, mask)[i][1]]]

\* lines 139-146: `if invalid_count > 0` stands in the body of the for loop,
\* after the if/elif chain, so it runs after every rule: reading invalid_count
\* before any validate_format rule assigned it raises UnboundLocalError
AfterBranch(acc, column, index, rule_type) ==
    IF acc.invalid_mask = Nothing THEN [acc EXCEPT !.raised = TRUE]
    ELSE IF Cardinality(acc.invalid_mask[1]) > 0
    THEN [acc EXCEPT !.issues = Append(@, FormatIssue(column, index, acc.invalid_mask[1]))]
    ELSE acc

\* lines 83-146: for rule_type, rule_config in rules.items()
RECURSIVE RulesLoop(_, _, _, _, _, _)
RulesLoop(acc, column, j, index, rules, k) ==
    IF acc.raised \/ k > Len(rules) THEN acc
    ELSE RulesLoop(AfterBranch(RuleBranch(acc, column, j, rules[k][1], rules[k][2]),
                               column, index, rules[k][1]),
                   column, j, index, rules, k + 1)

\* lines 76-148: the frame's rows after the call, the issues and the cleaning
\* applied, or raised
DataCleaner_clean_column(rows, index, column, j, rules) ==
    RulesLoop([raised |-> FALSE, rows |-> rows, issues |-> <<>>, cleaning_applied |-> <<>>,
               invalid_mask |-> Nothing],
              column, j, index, rules, 1)

\* lines 172-184: the issue of the addresses the email pattern does not match
EmailIssue(acc, column, index, mask) ==
    IF Cardinality(mask) > 0
    THEN [acc EXCEPT !.issues =
              Append(@, [column |-> column, issue_type |-> "invalid_email",
                         count |-> Cardinality(mask),
                         invalid_rows |-> [i \in DOMAIN MaskedLabels(index, mask) |->
                                              MaskedLabels(index, mask)[i][1]]])]
    ELSE acc

DefaultByName(acc, column, j, index) ==
    IF Contains(lower(column), "email")
    THEN EmailIssue(acc, column, index, InvalidMask(acc.rows, j, EmailPattern))
    ELSE acc

\* lines 150-232, for a column whose name holds none of phone, revenue, income,
\* date, postal, zip: the trim of every column, and the email check
_apply_default_cleaning(rows, index, column, j) ==
    DefaultByName(TrimWhitespace([raised |-> FALSE, rows |-> rows, issues |-> <<>>,
                                  cleaning_applied |-> <<>>, invalid_mask |-> Nothing],
                                 column, j),
                  column, j, index)

\* lines 263-300: the counts of the metrics (the percentages divide by the
\* number of cells and of rows, so a frame without cells raises
\* ZeroDivisionError)
_calculate_metrics(df) ==
    [raised |-> Len(df.rows) = 0 \/ Len(df.columns) = 0,
     total_rows |-> Len(df.rows),
     total_columns |-> Len(df.columns),
     null_cells |-> Cardinality({<<r, c>> \in (DOMAIN df.rows) \X (DOMAIN df.columns) :
                                    isna(df.rows[r][c])})]

\* line 38: df.rename(columns=column_mapping)
Renamed(columns, column_mapping) ==
    [j \in DOMAIN columns |->
        IF columns[j] \in DOMAIN column_mapping THEN column_mapping[columns[j]] ELSE columns[j]]

\* lines 45-63: the rules of the column, custom or default (no rules file)
ColumnCleaned(rows, index, column, j, custom_rules) ==
    IF column \in DOMAIN custom_rules
    THEN DataCleaner_clean_column(rows, index, column, j, custom_rules[column])
    ELSE _apply_default_cleaning(rows, index, column, j)

ColumnMerged(acc, cleaned) ==
    [raised |-> cleaned.raised, rows |-> cleaned.rows,
     issues_found |-> acc.issues_found \o cleaned.issues,
     cleaning_applied |-> acc.cleaning_applied \o cleaned.cleaning_applied]

\* lines 44-63: for column in df_cleaned.columns
RECURSIVE ColumnsLoop(_, _, _, _, _)
ColumnsLoop(acc, columns, index, custom_rules, j) ==
    IF acc.raised \/ j > Len(columns) THEN acc
    ELSE ColumnsLoop(ColumnMerged(acc, ColumnCleaned(acc.rows, index, columns[j], j,
                                                     custom_rules)),
                     columns, index, custom_rules, j + 1)

CleaningResultOf(before_metrics, index, columns, acc) ==
    IF before_metrics.raised \/ acc.raised THEN [raised |-> TRUE]
    ELSE [raised |-> FALSE,
          cleaned_df |-> DataFrame(columns, index, acc.rows),
          before_metrics |-> before_metrics,
          after_metrics |-> _calculate_metrics(DataFrame(columns, index, acc.rows)),
          issues_found |-> acc.issues_found,
          cleaning_applied |-> acc.cleaning_applied]

\* lines 27-74
clean_dataframe(df, column_mapping, custom_rules) ==
    CleaningResultOf(_calculate_metrics(df), df.index, Renamed(df.columns, column_mapping),
                     ColumnsLoop([raised |-> FALSE, rows |-> df.rows, issues_found |-> <<>>,
                                  cleaning_applied |-> <<>>],
                                 Renamed(df.columns, column_mapping), df.index,
                                 custom_rules, 1))

(***************************************************************************)
(* Stack B: the FastAPI handlers of backend/main.py.  A response is kept   *)
(* by its status code and what the handler returned; data/ is kept by the  *)
(* names of its files, temp_<timestamp>.csv as <<"temp", timestamp>>.      *)
(***************************************************************************)
\* raise HTTPException(status_code=...), or any other exception
HTTPException(status_code) == [raised |-> TRUE, status_code |-> status_code]
OtherException == [raised |-> TRUE, status_code |-> 0]
Answered(value) == [raised |-> FALSE, status_code |-> 200, value |-> value]

\* except Exception as e: raise HTTPException(status_code=500, detail=str(e)).
\* HTTPException is an Exception, so one raised in the try body is caught too
ExceptException(outcome) == IF outcome.raised THEN HTTPException(500) ELSE outcome

\* lines 71-79: the try body; df['name'] raises KeyError when the file has no
\* such column
SchemaBody(schema_path) ==
    IF schema_path # Nothing
    THEN IF "name" \in Range(schema_path[1].columns)
         THEN Answered([schema |-> to_dict_records(schema_path[1]),
                        columns |-> [r \in DOMAIN schema_path[1].rows |->
                                        str(schema_path[1].rows[r][
                                            CHOOSE j \in DOMAIN schema_path[1].columns :
                                                schema_path[1].columns[j] = "name"])]])
         ELSE OtherException
    ELSE HTTPException(404)

\* lines 67-82
get_canonical_schema(schema_path) == ExceptException(SchemaBody(schema_path))

\* lines 89, 143: f"{DATA_DIR}/temp_{datetime.now().strftime('%Y%m%d_%H%M%S')}.csv"
TempPath(clock) == <<"temp", clock>>
\* line 173
CleanedPath(clock) == <<"cleaned", clock>>

\* what a handler leaves: the files of data/ and the outcome
Handled(files, outcome) == [files |-> files, outcome |-> outcome]

\* lines 94-108 and 147-160: the temp file is created by open(); then
\* bytes.fromhex raises ValueError on text that is not hex, and pd.read_csv
\* raises EmptyDataError on a file without a header line
Upload(file_content) ==
    IF ~file_content.hex \/ file_content.csv = Nothing THEN OtherException
    ELSE Answered(file_content.csv[1])

\* lines 113-132: the schema, the mapping, os.remove(temp_path), the response
MapUploaded(files, temp_path, columns, canonical, custom, m) ==
    IF canonical.raised THEN Handled(files, canonical)
    ELSE Handled(files \ {temp_path},
                 Answered(SchemaMapper_map_columns(columns, canonical.value.columns,
                                                   custom, m)))

MapBody(files, temp_path, uploaded, schema_path, custom, m) ==
    IF uploaded.raised THEN Handled(files, uploaded)
    ELSE MapUploaded(files, temp_path, uploaded.value.columns,
                     get_canonical_schema(schema_path), custom, m)

MapResponse(handled) == Handled(handled.files, ExceptException(handled.outcome))

\* lines 84-136
map_schema(files, clock, schema_path, req, m) ==
    MapResponse(MapBody(files \cup {TempPath(clock)}, TempPath(clock),
                        Upload(req.file_content), schema_path, req.custom_mappings, m))

\* lines 172-211: the cleaned file is written, the temp file removed, and
\* the response built
CleanCleaned(files, clock, cleaning_result) ==
    IF cleaning_result.raised THEN Handled(files, OtherException)
    ELSE Handled((files \cup {CleanedPath(clock)}) \ {TempPath(clock)},
                 Answered([before_metrics |-> cleaning_result.before_metrics,
                           after_metrics |-> cleaning_result.after_metrics,
                           issues_found |-> cleaning_result.issues_found,
                           cleaning_applied |-> cleaning_result.cleaning_applied,
                           cleaned_file_path |-> CleanedPath(clock)]))

CleanBody(files, clock, uploaded, column_mapping, custom_rules) ==
    IF uploaded.raised THEN Handled(files, uploaded)
    ELSE CleanCleaned(files, clock,
                      clean_dataframe(uploaded.value, column_mapping, custom_rules))

\* lines 138-215
clean_data_endpoint(files, clock, req) ==
    MapResponse(CleanBody(files \cup {TempPath(clock)}, clock, Upload(req.file_content),
                          req.column_mapping, req.cleaning_rules))

(***************************************************************************)
(* Stack B: FixSuggester (backend/services/fix_suggester.py).  learned     *)
(* fixes are kept per column as the items (pattern, fix) of the inner      *)
(* dict, in dict order; the patterns are texts without regex operators.    *)
(***************************************************************************)
\* an entry of fix_suggestions (the reason text follows from fix_type)
Suggestion(row_index, column, current_value, suggested_value, confidence, fix_type) ==
    [row_index |-> row_index, column |-> column, current_value |-> current_value,
     suggested_value |-> suggested_value, confidence |-> confidence, fix_type |-> fix_type]

\* re.search(pattern, value, re.IGNORECASE) for a pattern of plain characters
re_search_ignorecase(pattern, value) == Contains(lower(value), lower(pattern))

\* lines 363-365: the fix of the first pattern, in dict order, that is found
RECURSIVE FirstFound(_, _, _)
FirstFound(items, value, k) ==
    IF k > Len(items) THEN Nothing
    ELSE IF re_search_ignorecase(items[k][1], value) THEN Some(items[k][2])
    ELSE FirstFound(items, value, k + 1)

\* lines 358-366
_get_learned_fix(fixes, column, value) ==
    IF column \in DOMAIN fixes THEN FirstFound(fixes[column], value, 1) ELSE Nothing

\* `if learned_fix`: neither None nor the empty text
Truthy(learned_fix) == learned_fix # Nothing /\ learned_fix # Some("")

\* the position of the column label among the frame's columns
ColumnPosition(df, column) == CHOOSE j \in DOMAIN df.columns : df.columns[j] = column

\* str(df.iloc[row_idx][column])
CurrentValue(df, row_idx, column) == astype_str(df.rows[row_idx + 1][ColumnPosition(df, column)])

\* email.replace('..', '.')
RECURSIVE ReplaceDoubleDots(_)
ReplaceDoubleDots(s) ==
    IF Len(s) < 2 THEN s
    ELSE IF SubSeq(s, 1, 2) = ".." THEN "." \o ReplaceDoubleDots(SubSeq(s, 3, Len(s)))
    ELSE CharAt(s, 1) \o ReplaceDoubleDots(Tail(s))

\* lines 117-121: a text with a dot and no @ gets the @ at its first dot
MissingAt(email) ==
    IF ~Contains(email, "@") /\ Contains(email, ".")
    THEN SubSeq(email, 1, IndexOf(email, ".") - 1) \o "@"
             \o SubSeq(email, IndexOf(email, ".") + 1, Len(email))
    ELSE email

\* lines 123-125: a text with an @ and no dot right after the first @ part
MissingDomain(email) ==
    IF Contains(email, "@") /\ ~Contains(SplitOn(email, "@", "")[2], ".")
    THEN email \o ".com"
    ELSE email

\* lines 103-127
_fix_email(email) ==
    IF email = "" \/ lower(email) = "nan" THEN email
    ELSE MissingDomain(MissingAt(ReplaceDoubleDots(RemoveChars(strip(email), " "))))

\* lines 74-97: the suggestion for one invalid row; ai is what
\* _ai_suggest_email_fix returns, None without a model
EmailSuggestion(row_idx, column, current_value, ai) ==
    IF _fix_email(current_value) # current_value
    THEN <<Suggestion(row_idx, column, current_value, _fix_email(current_value),
                      Frac(8, 10), "email_format")>>
    ELSE IF Truthy(ai)
    THEN <<Suggestion(row_idx, column, current_value, ai[1], Frac(6, 10), "ai_email_fix")>>
    ELSE <<>>

\* lines 180-207: the learned fix first, then the deterministic fixes
FormatSuggestion(row_idx, column, current_value, learned_fix, fixed_value) ==
    IF Truthy(learned_fix)
    THEN <<Suggestion(row_idx, column, current_value, learned_fix[1], Frac(9, 10),
                      "learned_pattern")>>
    ELSE IF fixed_value # current_value
    THEN <<Suggestion(row_idx, column, current_value, fixed_value, Frac(7, 10),
                      "deterministic_format")>>
    ELSE <<>>

\* lines 211-248, for a column whose name holds none of phone, postal, zip,
\* tax, vat, revenue, income: the value as it is
_apply_deterministic_fixes(column, value) == value

\* lines 292-304
GenericSuggestion(row_idx, column, current_value) ==
    IF strip(current_value) # current_value
    THEN <<Suggestion(row_idx, column, current_value, strip(current_value), Frac(5, 10),
                      "basic_cleaning")>>
    ELSE <<>>

\* df[column].dropna().astype(str).tolist()
NonNullValues(df, column) ==
    SelectSeq([r \in DOMAIN df.rows |-> df.rows[r][ColumnPosition(df, column)]],
              LAMBDA cell : ~isna(cell))

Count(values, v) == Cardinality({i \in DOMAIN values : values[i] = v})

\* line 262: max(set(values), key=values.count) is the first value of the
\* set's iteration order among those counted most often: any of them
MostCommon(df, column) ==
    {str(v) : v \in {w \in Range(NonNullValues(df, column)) :
                        \A u \in Range(NonNullValues(df, column)) :
                            Count(NonNullValues(df, column), u)
                                <= Count(NonNullValues(df, column), w)}}

\* the suggestions of one invalid row of one issue (lines 41-50 choose by
\* issue_type); most_common is the value line 262 picked for the column
RowSuggestions(df, fixes, issue, row_idx, ai, most_common) ==
    IF issue.issue_type = "invalid_email"
    THEN EmailSuggestion(row_idx, issue.column, CurrentValue(df, row_idx, issue.column), ai)
    ELSE IF issue.issue_type = "format_validation"
    THEN FormatSuggestion(row_idx, issue.column, CurrentValue(df, row_idx, issue.column),
                          _get_learned_fix(fixes, issue.column,
                                           CurrentValue(df, row_idx, issue.column)),
                          _apply_deterministic_fixes(issue.column,
                                                     CurrentValue(df, row_idx, issue.column)))
    ELSE IF issue.issue_type = "missing_values"
    THEN IF most_common = Nothing THEN <<>>
         ELSE <<Suggestion(row_idx, issue.column, "", most_common[1], Frac(5, 10),
                           "missing_value_imputation")>>
    ELSE IF issue.issue_type = "duplicate_values"
    THEN <<Suggestion(row_idx, issue.column, CurrentValue(df, row_idx, issue.column),
                      CurrentValue(df, row_idx, issue.column) \o "_" \o IntToStr(row_idx),
                      Frac(6, 10), "duplicate_resolution")>>
    ELSE GenericSuggestion(row_idx, issue.column, CurrentValue(df, row_idx, issue.column))

\* for row_idx in invalid_rows, rows past the end of the frame skipped
RECURSIVE RowsLoop(_, _, _, _, _, _, _)
RowsLoop(acc, df, fixes, issue, ai, most_common, k) ==
    IF k > Len(issue.invalid_rows) THEN acc
    ELSE IF issue.invalid_rows[k] >= Len(df.rows)
    THEN RowsLoop(acc, df, fixes, issue, ai, most_common, k + 1)
    ELSE RowsLoop(acc \o RowSuggestions(df, fixes, issue, issue.invalid_rows[k], ai,
                                        most_common),
                  df, fixes, issue, ai, most_common, k + 1)

\* lines 36-52: for issue in issues
RECURSIVE IssuesLoop(_, _, _, _, _, _, _)
IssuesLoop(acc, df, fixes, issues, ai, pick, k) ==
    IF k > Len(issues) THEN acc
    ELSE IssuesLoop(RowsLoop(acc, df, fixes, issues[k], ai, pick[issues[k].column], 1),
                    df, fixes, issues, ai, pick, k + 1)

\* line 345-347 without the test of the existing suggestions
LearnedCell_Uncovered(existing_suggestions, column, idx, value, learned_fix) ==
    IF Truthy(learned_fix) /\ learned_fix # Some(value)
    THEN <<Suggestion(idx, column, value, learned_fix[1], Frac(9, 10), "learned_pattern")>>
    ELSE <<>>

\* lines 341-354: one cell of the final pass
LearnedCell(existing_suggestions, column, idx, value, learned_fix) ==
    IF /\ Truthy(learned_fix) /\ learned_fix # Some(value)
       /\ ~\E i \in DOMAIN existing_suggestions :
             /\ existing_suggestions[i].row_index = idx
             /\ existing_suggestions[i].column = column
    THEN <<Suggestion(idx, column, value, learned_fix[1], Frac(9, 10), "learned_pattern")>>
    ELSE <<>>

\* lines 339-340: for column in df.columns: for idx, value in df[column].items()
RECURSIVE CellsLoop(_, _, _, _, _, _)
CellsLoop(acc, df, fixes, existing_suggestions, j, r) ==
    IF j > Len(df.columns) THEN acc
    ELSE IF r > Len(df.rows) THEN CellsLoop(acc, df, fixes, existing_suggestions, j + 1, 1)
    ELSE CellsLoop(acc \o LearnedCell(existing_suggestions, df.columns[j], df.index[r],
                                      astype_str(df.rows[r][j]),
                                      _get_learned_fix(fixes, df.columns[j],
                                                       astype_str(df.rows[r][j]))),
                   df, fixes, existing_suggestions, j, r + 1)

\* lines 332-356
_apply_learned_fixes(df, fixes, existing_suggestions) ==
    CellsLoop(<<>>, df, fixes, existing_suggestions, 1, 1)

\* lines 31-60: the per-issue suggestions, then the final pass appended
suggest_fixes(df, fixes, issues, ai, pick) ==
    IssuesLoop(<<>>, df, fixes, issues, ai, pick, 1)
        \o _apply_learned_fixes(df, fixes, IssuesLoop(<<>>, df, fixes, issues, ai, pick, 1))

\* the dict after d[key] = value: a key the dict holds keeps its place
ItemSet(items, key, value) ==
    IF \E i \in DOMAIN items : items[i][1] = key
    THEN [i \in DOMAIN items |-> IF items[i][1] = key THEN <<key, value>> ELSE items[i]]
    ELSE Append(items, <<key, value>>)

\* lines 368-385: FixSuggester.promote_fix
FixSuggester_promote_fix(fixes, fix_type, pattern, solution) ==
    DictSet(fixes, fix_type,
            ItemSet(IF fix_type \in DOMAIN fixes THEN fixes[fix_type] ELSE <<>>,
                    pattern, solution))

(***************************************************************************)
(* Stack B: the Streamlit wizard (frontend/app.py).  A script run is the   *)
(* sidebar and then the view of the current step; the backend's replies    *)
(* are inputs of the run.                                                  *)
(***************************************************************************)
\* lines 27-40: initialize_session_state
InitialSessionState ==
    [current_step |-> "upload", uploaded_file |-> Nothing, mapping_result |-> Nothing,
     cleaning_result |-> Nothing, fix_suggestions |-> <<>>, custom_mappings |-> EmptyDict]

Steps == {"upload", "mapping", "cleaning", "fixes", "results"}

\* what a widget of the run reports: the button pressed, if any
Click(button, i) == [button |-> button, i |-> i]
NoClick == Click("none", 0)

\* a reply of the backend: the status code and the JSON body
Reply(status_code, body) == [status_code |-> status_code, body |-> body]

\* what a view did in one run: the session state it leaves, the endpoints it
\* called, whether it showed its warning and returned, the suggestions it
\* listed, and whether it ended in st.rerun()
Rendered(ss, calls, warning, listed, rerun) ==
    [state |-> ss, calls |-> calls, warning |-> warning, listed |-> listed, rerun |-> rerun]

\* lines 89-128, the uploader column: the chosen file is kept, and the
\* Start button, shown when the preview could be read, moves to the mapping
UploaderColumn(ss, click, chosen) ==
    IF chosen = Nothing THEN Rendered(ss, {}, FALSE, <<>>, FALSE)
    ELSE IF click.button = "start_mapping" /\ chosen[1].readable
    THEN Rendered([ss EXCEPT !.uploaded_file = chosen, !.current_step = "mapping"],
                  {}, FALSE, <<>>, TRUE)
    ELSE Rendered([ss EXCEPT !.uploaded_file = chosen], {}, FALSE, <<>>, FALSE)

\* lines 130-150, the sample column: a sample file that exists is loaded
SampleColumn(out, click, sample) ==
    IF ~out.rerun /\ click.button = "sample" /\ sample # Nothing
    THEN Rendered([out.state EXCEPT !.uploaded_file = sample], {}, FALSE, <<>>, TRUE)
    ELSE out

\* lines 89-150
render_upload_step(ss, click, chosen, sample) ==
    SampleColumn(UploaderColumn(ss, click, chosen), click, sample)

\* lines 197-225 and 227-289: the Analyze button posts the file; the Proceed
\* button of the mapping results moves to the cleaning
MappingButtons(ss, click, map_reply) ==
    IF click.button = "analyze"
    THEN Rendered(IF map_reply.status_code = 200
                  THEN [ss EXCEPT !.mapping_result = Some(map_reply.body)]
                  ELSE ss,
                  {"/canonical-schema", "/map-schema"}, FALSE, <<>>, FALSE)
    ELSE IF click.button = "proceed" /\ ss.mapping_result # Nothing
    THEN Rendered([ss EXCEPT !.current_step = "cleaning"], {"/canonical-schema"}, FALSE,
                  <<>>, TRUE)
    ELSE Rendered(ss, {"/canonical-schema"}, FALSE, <<>>, FALSE)

\* lines 153-225 without the test of the uploaded file
render_mapping_step_Unguarded(ss, click, schema_reply, map_reply) ==
    IF schema_reply.status_code # 200
    THEN Rendered(ss, {"/canonical-schema"}, FALSE, <<>>, FALSE)
    ELSE MappingButtons(ss, click, map_reply)

\* lines 153-225
render_mapping_step(ss, click, schema_reply, map_reply) ==
    IF ss.uploaded_file = Nothing THEN Rendered(ss, {}, TRUE, <<>>, FALSE)
    ELSE IF schema_reply.status_code # 200
    THEN Rendered(ss, {"/canonical-schema"}, FALSE, <<>>, FALSE)
    ELSE MappingButtons(ss, click, map_reply)

\* lines 323-355: the Start button; seek on a missing file raises inside the
\* try, before the request is made
StartCleaning(ss, clean_reply) ==
    IF ss.uploaded_file = Nothing THEN Rendered(ss, {}, FALSE, <<>>, FALSE)
    ELSE Rendered(IF clean_reply.status_code = 200
                  THEN [ss EXCEPT !.cleaning_result = Some(clean_reply.body)]
                  ELSE ss,
                  {"/clean-data"}, FALSE, <<>>, FALSE)

\* lines 418-427: the button under the cleaning results
AfterCleaningResults(ss, click) ==
    IF ss.cleaning_result # Nothing /\ click.button = "get_fixes"
          /\ ss.cleaning_result[1].issues_found # <<>>
    THEN Rendered([ss EXCEPT !.current_step = "fixes"], {}, FALSE, <<>>, TRUE)
    ELSE IF ss.cleaning_result # Nothing /\ click.button = "view_results"
               /\ ss.cleaning_result[1].issues_found = <<>>
    THEN Rendered([ss EXCEPT !.current_step = "results"], {}, FALSE, <<>>, TRUE)
    ELSE Rendered(ss, {}, FALSE, <<>>, FALSE)

\* lines 291-359
render_cleaning_step(ss, click, clean_reply) ==
    IF ss.mapping_result = Nothing THEN Rendered(ss, {}, TRUE, <<>>, FALSE)
    ELSE IF click.button = "start_cleaning" THEN StartCleaning(ss, clean_reply)
    ELSE AfterCleaningResults(ss, click)

\* list.pop(i), i counted from 0
Pop(list, i) == SubSeq(list, 1, i) \o SubSeq(list, i + 2, Len(list))

\* lines 437-459: the suggestions are fetched while the list held is empty
FetchedSuggestions(ss, suggest_reply) ==
    IF ss.fix_suggestions = <<>> /\ suggest_reply.status_code = 200
    THEN [ss EXCEPT !.fix_suggestions = suggest_reply.body]
    ELSE ss

\* lines 461-520: the list and its buttons, then the button to the results
FixesButtons(ss, calls, click) ==
    IF click.button = "reject" /\ click.i \in 0..(Len(ss.fix_suggestions) - 1)
    THEN Rendered([ss EXCEPT !.fix_suggestions = Pop(@, click.i)], calls, FALSE,
                  SubSeq(ss.fix_suggestions, 1, click.i + 1), TRUE)
    ELSE IF click.button = "promote" /\ click.i \in 0..(Len(ss.fix_suggestions) - 1)
    THEN Rendered(ss, calls \cup {"/promote-fix"}, FALSE, ss.fix_suggestions, FALSE)
    ELSE IF click.button = "final_results"
    THEN Rendered([ss EXCEPT !.current_step = "results"], calls, FALSE, ss.fix_suggestions,
                  TRUE)
    ELSE Rendered(ss, calls, FALSE, ss.fix_suggestions, FALSE)

\* lines 429-520
render_fixes_step(ss, click, suggest_reply) ==
    IF ss.cleaning_result = Nothing THEN Rendered(ss, {}, TRUE, <<>>, FALSE)
    ELSE FixesButtons(FetchedSuggestions(ss, suggest_reply),
                      IF ss.fix_suggestions = <<>> THEN {"/suggest-fixes"} ELSE {}, click)

\* lines 525-577: the Upload New File button deletes the keys, which the next
\* run initializes
render_results_step(ss, click) ==
    IF ss.cleaning_result = Nothing THEN Rendered(ss, {}, TRUE, <<>>, FALSE)
    ELSE IF click.button = "new_file" THEN Rendered(InitialSessionState, {}, FALSE, <<>>, TRUE)
    ELSE Rendered(ss, {}, FALSE, <<>>, FALSE)

\* the inputs of a run: the widget events and the replies of the backend
RunInputs(click, chosen, sample, schema_reply, map_reply, clean_reply, suggest_reply) ==
    [click |-> click, chosen |-> chosen, sample |-> sample, schema_reply |-> schema_reply,
     map_reply |-> map_reply, clean_reply |-> clean_reply, suggest_reply |-> suggest_reply]

\* lines 51-61: the view of the current step
View(ss, inputs) ==
    IF ss.current_step = "upload"
    THEN render_upload_step(ss, inputs.click, inputs.chosen, inputs.sample)
    ELSE IF ss.current_step = "mapping"
    THEN render_mapping_step(ss, inputs.click, inputs.schema_reply, inputs.map_reply)
    ELSE IF ss.current_step = "cleaning" THEN render_cleaning_step(ss, inputs.click, inputs.clean_reply)
    ELSE IF ss.current_step = "fixes" THEN render_fixes_step(ss, inputs.click, inputs.suggest_reply)
    ELSE render_results_step(ss, inputs.click)

\* lines 63-77: a sidebar button sets the step
render_sidebar(ss, click) ==
    IF click.button = "nav" THEN [ss EXCEPT !.current_step = click.i] ELSE ss

\* lines 42-61: run
run(ss, inputs) == View(render_sidebar(ss, inputs.click), inputs)

(***************************************************************************)
(* DataCleanerAgent.clean_data on one uploaded frame, and again on the     *)
(* frame it returned                                                       *)
(***************************************************************************)
\* rows of an uploaded frame
MaxRows == 3
\* clean_data calls in one behaviour
MaxPasses == 2

\* the cells an uploaded column may hold
CellPool ==
    ("phone" :> {PyStr("9876543210"), PyStr("98765-43210"), PyStr("987654321"),
                 PyStr("98765432101"), PyStr("+91-9876543210")}) @@
    ("discount_pct" :> {PyStr("25%"), PyStr("0.25"), PyStr("1"), PyStr("150"),
                        PyFloat("1.5"), NaN}) @@
    ("unit_price" :> {PyStr("₹1,000.00"), PyStr("Rs 1000"), PyStr("1000"),
                      PyStr("1,000.00"), PyFloat("1000.0")}) @@
    ("order_date" :> {PyStr("2024-01-05"), PyStr("05/01/2024"), PyStr("05-Jan-2024"),
                      PyStr("soon")})

\* the header the upload gives the column, where it is not the canonical name
SourceLabel ==
    ("phone" :> "Phone No") @@ ("discount_pct" :> "Discount") @@
    ("unit_price" :> "Price") @@ ("order_date" :> "Date")

\* a frame of one pooled column and a free-text column, rows labelled 0..n-1
PooledFrame(label, cells) ==
    DataFrame(<<label, "remarks">>, [r \in DOMAIN cells |-> r - 1],
              [r \in DOMAIN cells |-> <<cells[r], PyStr("ok")>>])

ColumnCells(column) == UNION {[1..n -> CellPool[column]] : n \in 1..MaxRows}

\* uploads under the canonical header, uploads whose header a mapping renames,
\* an upload whose header nothing maps, and one with the header twice
Uploads ==
    UNION {{[df |-> PooledFrame(column, cells), mappings |-> <<>>] :
                cells \in ColumnCells(column)} : column \in DOMAIN CellPool}
    \cup
    UNION {{[df |-> PooledFrame(SourceLabel[column], cells),
             mappings |-> <<MappingResult(SourceLabel[column], column, One, "exact")>>] :
                cells \in ColumnCells(column)} : column \in DOMAIN CellPool}
    \cup
    {[df |-> PooledFrame("Phone No", <<PyStr("9876543210")>>), mappings |-> <<>>],
     [df |-> DataFrame(<<"phone", "Phone No">>, <<0>>,
                       <<<<PyStr("9876543210"), PyStr("987654321")>>>>),
      mappings |-> <<MappingResult("Phone No", "phone", One, "exact")>>]}

CleanerInit ==
    /\ comp = "cleaner"
    /\ pc = "call"
    /\ \E u \in Uploads : input_df = u.df /\ input_mappings = u.mappings
    /\ cleaning = Unused
    /\ passes = 0
    /\ EarlierUnused /\ StoreUnused /\ BackendUnused /\ SuggesterUnused /\ FrontUnused

\* cleaned_df, cleaning_results = data_cleaner.clean_data(df, mappings)
CleanData ==
    /\ comp = "cleaner"
    /\ pc = "call"
    /\ cleaning' = clean_data(input_df, input_mappings)
    /\ passes' = passes + 1
    /\ pc' = "returned"
    /\ UNCHANGED <<comp, earlierVars, frontVars, storeVars, backendVars, suggesterVars, input_df, input_mappings>>

\* the caller hands the returned frame to clean_data once more
CleanAgain ==
    /\ comp = "cleaner"
    /\ pc = "returned"
    /\ ~cleaning.raised
    /\ passes < MaxPasses
    /\ input_df' = cleaning.cleaned_df
    /\ cleaning' = Unused
    /\ pc' = "call"
    /\ UNCHANGED <<comp, earlierVars, frontVars, storeVars, backendVars, suggesterVars, input_mappings, passes>>

CleanerNext == CleanData \/ CleanAgain

SpecCleaner == CleanerInit /\ [][CleanerNext]_vars

\* a clean_data call has returned a frame
Cleaned == comp = "cleaner" /\ pc = "returned" /\ ~cleaning.raised

\* positions of the returned frame's columns that carry the label
ColumnsOf(label) ==
    {j \in DOMAIN cleaning.cleaned_df.columns : cleaning.cleaned_df.columns[j] = label}

\* the cell handed in and the cell returned, at row r of column position j
CellIn(r, j) == input_df.rows[r][j]
CellOut(r, j) == cleaning.cleaned_df.rows[r][j]

\* the rules of the column whose detector matches the value, in declared order
Matching(value, column) ==
    SelectSeq(RulesOf(column), LAMBDA rule : _apply_rule(value, rule))

\* the CleaningResults recorded for the value in the column
ResultsFor(value, column) ==
    {k \in DOMAIN cleaning.cleaning_results :
        /\ cleaning.cleaning_results[k].column = column
        /\ cleaning.cleaning_results[k].original_value = value}

C13_TenDigitsNormalized ==
    Cleaned =>
        \A j \in ColumnsOf("phone") : \A r \in DOMAIN input_df.rows :
            /\ Len(KeepChars(str(CellIn(r, j)), Digits)) = 10
                  => CellOut(r, j) = PyStr("+91-" \o KeepChars(str(CellIn(r, j)), Digits))
            /\ Len(KeepChars(str(CellIn(r, j)), Digits)) \in {9, 11}
                  => /\ CellOut(r, j) = CellIn(r, j)
                     /\ ~_validate_phone(str(CellOut(r, j))).valid

\* every cell of the column that held the text comes back as `out`, and the
\* CleaningResult recorded for the text has `out` as its cleaned value
NormalizedTo(column, text, out) ==
    \A j \in ColumnsOf(column) : \A r \in DOMAIN input_df.rows :
        CellIn(r, j) = PyStr(text) =>
            /\ CellOut(r, j) = out
            /\ \E k \in ResultsFor(PyStr(text), column) :
                  cleaning.cleaning_results[k].cleaned_value = out

C15_CurrencyTextsBecomeNumber ==
    Cleaned =>
        /\ NormalizedTo("unit_price", "₹1,000.00", PyFloat("1000.0"))
        /\ NormalizedTo("unit_price", "Rs 1000", PyFloat("1000.0"))
        /\ NormalizedTo("unit_price", "1000", PyFloat("1000.0"))
        /\ \A j \in ColumnsOf("unit_price") : \A r \in DOMAIN input_df.rows :
              CellIn(r, j) = PyFloat("1000.0") => CellOut(r, j) = PyFloat("1000.0")

(***************************************************************************)
(* save_processing_result and load_processing_result on one data directory *)
(***************************************************************************)
\* session ids, given by the caller or drawn by uuid.uuid4()
SessionIds == {"s-1", "s-2"}

StoredFrames ==
    {DataFrame(<<"email", "unit_price">>, <<0, 1>>,
               <<<<PyStr("a@x.io"), PyFloat("1000.0")>>, <<PyStr("b@x.io"), PyFloat("12.5")>>>>),
     DataFrame(<<"email", "quantity">>, <<0, 1>>,
               <<<<PyStr("a@x.io"), PyInt("3")>>, <<NaN, PyInt("4")>>>>),
     DataFrame(<<"email", "phone">>, <<>>, <<>>),
     DataFrame(<<"email">>, <<5, 7>>, <<<<PyStr("a@x.io")>>, <<PyStr("b@x.io")>>>>),
     DataFrame(<<"email", "email">>, <<0>>, <<<<PyStr("a@x.io"), PyStr("b@x.io")>>>>)}

\* str() of a MappingResult dataclass instance
MappingObject ==
    PyObject("MappingResult(source_column='Email', target_column='email', confidence=1.0, mapping_type='exact')")

StoredMappings == {PyList(<<>>), PyList(<<MappingObject>>)}

\* what process_data returns (lines 250-258 of data_processing_graph.py), with
\* frames and mapping lists as above
ProcessedResult(final_dataframe, column_mappings) ==
    PyDict(<<<<PyStr("final_dataframe"), final_dataframe>>,
             <<PyStr("column_mappings"), column_mappings>>,
             <<PyStr("unmapped_columns"), PyList(<<PyStr("zzz")>>)>>,
             <<PyStr("processing_summary"),
               PyDict(<<<<PyStr("total_rows"), PyInt("2")>>,
                        <<PyStr("mapped_columns"), PyInt("1")>>>>)>>>>)

\* results a caller saves: process_data results, and a result that carries a
\* raw and a cleaned frame as well
ProcessingResults ==
    {ProcessedResult(f, m) : f \in StoredFrames, m \in StoredMappings}
    \cup
    {PyDict(<<<<PyStr("raw_dataframe"), f>>, <<PyStr("cleaned_dataframe"), f>>,
              <<PyStr("session"), PyStr("demo")>>>>) : f \in StoredFrames}

SessionsInit ==
    /\ comp = "sessions"
    /\ pc = "idle"
    /\ session_files = EmptyDict
    /\ saved_result = Unused
    /\ returned_id = Unused
    /\ loaded_result = Unused
    /\ EarlierUnused /\ CleanerUnused /\ BackendUnused /\ SuggesterUnused /\ FrontUnused

\* session_id = save_processing_result(result, session_id): the id is the
\* caller's, or a uuid4 when the caller gives none
SaveProcessingResult ==
    /\ comp = "sessions"
    /\ \E res \in ProcessingResults, id \in SessionIds :
          /\ session_files' = save_processing_result(session_files, res, id)
          /\ saved_result' = res
          /\ returned_id' = id
    /\ loaded_result' = Unused
    /\ pc' = "saved"
    /\ UNCHANGED <<comp, earlierVars, frontVars, cleanerVars, backendVars, suggesterVars>>

\* result = load_processing_result(session_id)
LoadProcessingResult ==
    /\ comp = "sessions"
    /\ \E id \in SessionIds :
          loaded_result' = [session_id |-> id,
                            result |-> load_processing_result(session_files, id)]
    /\ pc' = "loaded"
    /\ UNCHANGED <<comp, earlierVars, frontVars, cleanerVars, backendVars, suggesterVars, session_files,
                   saved_result, returned_id>>

SessionsNext == SaveProcessingResult \/ LoadProcessingResult

SpecSessions == SessionsInit /\ [][SessionsNext]_vars

\* the last call loaded the session the last save returned
LoadedSaved == comp = "sessions" /\ pc = "loaded" /\ loaded_result.session_id = returned_id

\* the loaded value is a dataset with the saved frame's columns and rows
SameDataset(got, frame) ==
    /\ IsDataFrame(got)
    /\ got.columns = frame.columns
    /\ got.rows = frame.rows

\* C16: loading the session a save returned gives a result in which every
\* field that was not a frame equals the saved field, and every field that
\* was a frame is a frame with the same columns and the same rows
C16_SaveLoadRoundTrip ==
    LoadedSaved =>
        /\ loaded_result.result # Nothing
        /\ \A i \in DOMAIN saved_result.items :
              /\ HasKey(loaded_result.result[1], saved_result.items[i][1])
              /\ IF IsDataFrame(saved_result.items[i][2])
                 THEN SameDataset(DictGet(loaded_result.result[1], saved_result.items[i][1]),
                                  saved_result.items[i][2])
                 ELSE DictGet(loaded_result.result[1], saved_result.items[i][1])
                          = saved_result.items[i][2]

(***************************************************************************)
(* The Stack B backend: requests served one at a time, the clock and the   *)
(* schema file changing between them                                       *)
(***************************************************************************)
\* the seconds the timestamps of a behaviour show
Seconds == {0, 1}

\* Project6StdFormat.csv as pd.read_csv gives it, and a file without the
\* name column
SchemaFiles ==
    {Nothing,
     Some(DataFrame(<<"name", "type">>, <<0, 1, 2>>,
                    <<<<PyStr("customer_name"), PyStr("string")>>,
                      <<PyStr("email"), PyStr("string")>>,
                      <<PyStr("phone"), PyStr("string")>>>>)),
     Some(DataFrame(<<"column", "type">>, <<0>>, <<<<PyStr("email"), PyStr("string")>>>>))}

\* the frame pd.read_csv makes of an upload with the one header Email
EmailUpload(cells) ==
    DataFrame(<<"Email">>, [r \in DOMAIN cells |-> r - 1], [r \in DOMAIN cells |-> <<cells[r]>>])

\* request.file_content: text that is not hex, or the hex of an empty file, of
\* a header line alone, or of a header line and rows
FileContents ==
    {[hex |-> FALSE, csv |-> Nothing],
     [hex |-> TRUE, csv |-> Nothing],
     [hex |-> TRUE, csv |-> Some(EmailUpload(<<>>))],
     [hex |-> TRUE, csv |-> Some(EmailUpload(<<PyStr("a@x.io"), PyStr("bad")>>))],
     [hex |-> TRUE, csv |-> Some(EmailUpload(<<PyStr("a@x.io"), PyStr("B@X.IO")>>))],
     [hex |-> TRUE, csv |-> Some(EmailUpload(<<NaN, PyStr("a@x.io"), PyStr("bad")>>))]}

\* request.cleaning_rules: none, or the rules of the email column
CleaningRuleSets ==
    {EmptyDict,
     [c \in {"email"} |-> <<<<"validate_format", EmailPattern>>>>],
     [c \in {"email"} |-> <<<<"validate_format", EmailPattern>>, <<"trim_whitespace", TRUE>>>>],
     [c \in {"email"} |-> <<<<"trim_whitespace", TRUE>>, <<"validate_format", EmailPattern>>>>],
     [c \in {"email"} |-> <<<<"normalize_case", "lower">>, <<"validate_format", EmailPattern>>>>],
     [c \in {"email"} |-> <<<<"trim_whitespace", TRUE>>>>]}

MappingRequests == {[file_content |-> f, custom_mappings |-> <<>>] : f \in FileContents}

CleaningRequests ==
    {[file_content |-> f, column_mapping |-> [c \in {"Email"} |-> "email"],
      cleaning_rules |-> rules] : f \in FileContents, rules \in CleaningRuleSets}

\* what the last request was, the schema file it was served with, and how it
\* was answered
Response(endpoint, req, served_with, temp_path, outcome) ==
    [endpoint |-> endpoint, request |-> req, schema_file |-> served_with,
     temp_path |-> temp_path, outcome |-> outcome]

BackendInit ==
    /\ comp = "backend"
    /\ pc = "serving"
    /\ schema_file \in SchemaFiles
    /\ data_dir = {}
    /\ now = 0
    /\ response = Response("none", Unused, Unused, Unused, Unused)
    /\ EarlierUnused /\ CleanerUnused /\ StoreUnused /\ SuggesterUnused /\ FrontUnused

\* GET /canonical-schema
GetCanonicalSchema ==
    /\ comp = "backend"
    /\ response' = Response("canonical-schema", Unused, schema_file, Unused,
                            get_canonical_schema(schema_file))
    /\ UNCHANGED <<comp, pc, earlierVars, frontVars, cleanerVars, storeVars, suggesterVars, schema_file,
                   data_dir, now>>

\* POST /map-schema
PostMapSchema ==
    /\ comp = "backend"
    /\ \E req \in MappingRequests, m \in Matchers :
          /\ data_dir' = map_schema(data_dir, now, schema_file, req, m).files
          /\ response' = Response("map-schema", req, schema_file, TempPath(now),
                                  map_schema(data_dir, now, schema_file, req, m).outcome)
    /\ UNCHANGED <<comp, pc, earlierVars, frontVars, cleanerVars, storeVars, suggesterVars, schema_file, now>>

\* POST /clean-data
PostCleanData ==
    /\ comp = "backend"
    /\ \E req \in CleaningRequests :
          /\ data_dir' = clean_data_endpoint(data_dir, now, req).files
          /\ response' = Response("clean-data", req, schema_file, TempPath(now),
                                  clean_data_endpoint(data_dir, now, req).outcome)
    /\ UNCHANGED <<comp, pc, earlierVars, frontVars, cleanerVars, storeVars, suggesterVars, schema_file, now>>

\* a second passes
Tick ==
    /\ comp = "backend"
    /\ now + 1 \in Seconds
    /\ now' = now + 1
    /\ UNCHANGED <<comp, pc, earlierVars, frontVars, cleanerVars, storeVars, suggesterVars, schema_file,
                   data_dir, response>>

\* the schema file is put in place, replaced or taken away
SchemaFileChanges ==
    /\ comp = "backend"
    /\ schema_file' \in SchemaFiles \ {schema_file}
    /\ UNCHANGED <<comp, pc, earlierVars, frontVars, cleanerVars, storeVars, suggesterVars, data_dir, now,
                   response>>

BackendNext ==
    GetCanonicalSchema \/ PostMapSchema \/ PostCleanData \/ Tick \/ SchemaFileChanges

SpecBackend == BackendInit /\ [][BackendNext]_vars

\* C17: a GET /canonical-schema served while Project6StdFormat.csv is absent
\* is answered with status 404
C17_AbsentSchemaIs404 ==
    (comp = "backend" /\ response.endpoint = "canonical-schema"
                      /\ response.schema_file = Nothing)
        => response.outcome.status_code = 404


\* a GET /canonical-schema served without the schema file is answered 500
AbsentSchemaIs500 ==
    (comp = "backend" /\ response.endpoint = "canonical-schema"
                      /\ response.schema_file = Nothing)
        => response.outcome.status_code = 500

\* C18: once a POST /map-schema or POST /clean-data request is answered,
\* with a result or with an error, its temp file is no longer under data/
C18_TempFileRemoved ==
    (comp = "backend" /\ response.endpoint \in {"map-schema", "clean-data"})
        => response.temp_path \notin data_dir

\* the temp file is gone after every request answered with status 200
TempFileRemovedOnSuccess ==
    (comp = "backend" /\ response.endpoint \in {"map-schema", "clean-data"}
                      /\ response.outcome.status_code = 200)
        => response.temp_path \notin data_dir

\* the temp file is left behind after every request answered with an error
TempFileLeftOnError ==
    (comp = "backend" /\ response.endpoint \in {"map-schema", "clean-data"}
                      /\ response.outcome.status_code # 200)
        => response.temp_path \in data_dir

\* the requests C19 is about: an upload with rows, and a rule set for the email
\* column that contains validate_format
Validating(req) ==
    /\ req.file_content.hex
    /\ req.file_content.csv # Nothing
    /\ Len(req.file_content.csv[1].rows) > 0
    /\ "email" \in DOMAIN req.cleaning_rules
    /\ \E k \in DOMAIN req.cleaning_rules["email"] :
          req.cleaning_rules["email"][k][1] = "validate_format"

\* the one aggregated issue of the uploaded values that fail the pattern, or
\* no issue when none fails
ExpectedFormatIssues(df) ==
    IF InvalidMask(df.rows, 1, EmailPattern) # {}
    THEN <<FormatIssue("email", df.index, InvalidMask(df.rows, 1, EmailPattern))>>
    ELSE <<>>

FormatIssues(issues) == SelectSeq(issues, LAMBDA i : i.issue_type = "format_validation")

\* C19: for a rule set that contains validate_format, whatever else it holds
\* and in whatever order, exactly one format_validation issue (failing row
\* labels and count) is reported when a value fails the pattern, none otherwise
C19_OneFormatIssue ==
    (comp = "backend" /\ response.endpoint = "clean-data" /\ Validating(response.request))
        => /\ ~response.outcome.raised
           /\ FormatIssues(response.outcome.value.issues_found)
                  = ExpectedFormatIssues(response.request.file_content.csv[1])

\* a rule set of validate_format alone reports as C19 says
SoleValidateFormat ==
    (comp = "backend" /\ response.endpoint = "clean-data" /\ Validating(response.request)
                      /\ Len(response.request.cleaning_rules["email"]) = 1)
        => /\ ~response.outcome.raised
           /\ FormatIssues(response.outcome.value.issues_found)
                  = ExpectedFormatIssues(response.request.file_content.csv[1])

\* a rule before validate_format makes the call raise
RuleBeforeValidateFormatRaises ==
    (comp = "backend" /\ response.endpoint = "clean-data" /\ Validating(response.request)
                      /\ response.request.cleaning_rules["email"][1][1] # "validate_format")
        => response.outcome.raised

\* a rule after validate_format reports the failing values once more
RuleAfterValidateFormatRepeats ==
    (comp = "backend" /\ response.endpoint = "clean-data" /\ Validating(response.request)
                      /\ response.request.cleaning_rules["email"][1][1] = "validate_format")
        => /\ ~response.outcome.raised
           /\ FormatIssues(response.outcome.value.issues_found)
                  = [k \in 1..(Len(response.request.cleaning_rules["email"])
                                  * Len(ExpectedFormatIssues(response.request.file_content.csv[1])))
                        |-> ExpectedFormatIssues(response.request.file_content.csv[1])[1]]

(***************************************************************************)
(* The Stack B FixSuggester: fixes promoted through promote_fix, and       *)
(* suggest_fixes called on cleaned frames                                  *)
(***************************************************************************)
\* the rows of the cleaned files: country and email
CleanedRows ==
    {<<PyStr("usa"), PyStr("x@gmailcom")>>, <<PyStr("USA"), PyStr("a@x.io")>>,
     <<NaN, PyStr("x@gmailcom")>>}

\* pd.read_csv(cleaned_file_path): two rows under a RangeIndex
CleanedFrames ==
    {DataFrame(<<"country", "email">>, <<0, 1>>, <<first, second>>) :
         first \in CleanedRows, second \in CleanedRows}

Issue(issue_type, column, invalid_rows) ==
    [issue_type |-> issue_type, column |-> column, invalid_rows |-> invalid_rows]

\* request.issues
IssueLists ==
    {<<>>,
     <<Issue("invalid_email", "email", <<0, 1>>)>>,
     <<Issue("format_validation", "country", <<0>>)>>,
     <<Issue("missing_values", "country", <<1>>), Issue("duplicate_values", "email", <<1, 5>>),
       Issue("unexpected_whitespace", "country", <<0>>)>>}

\* the replies of the model to the email prompt: none, or an address
AiReplies(issues) ==
    IF \E k \in DOMAIN issues : issues[k].issue_type = "invalid_email"
    THEN {Nothing, Some("fixed@x.io")}
    ELSE {Nothing}

\* what line 262 may pick for a column that has a missing_values issue
PickChoices(df, issues, column) ==
    IF /\ \E k \in DOMAIN issues :
             issues[k].issue_type = "missing_values" /\ issues[k].column = column
       /\ MostCommon(df, column) # {}
    THEN {Some(v) : v \in MostCommon(df, column)}
    ELSE {Nothing}

Picks(df, issues) ==
    {pick \in [Range(df.columns) -> UNION {PickChoices(df, issues, c) : c \in Range(df.columns)}] :
        \A c \in Range(df.columns) : pick[c] \in PickChoices(df, issues, c)}

\* the bodies of POST /promote-fix: fix_type, pattern, solution
PromoteRequests ==
    {<<"country", "usa", "USA">>, <<"country", "usa", "">>,
     <<"email", "gmailcom", "x@gmail.com">>}

\* a call of suggest_fixes: its arguments, the learned fixes it ran with, the
\* suggestions of the issues and the list returned
SuggestCall(df, fixes, issues, existing, returned) ==
    [called |-> TRUE, df |-> df, learned_fixes |-> fixes, issues |-> issues,
     existing |-> existing, returned |-> returned]

SuggesterInit ==
    /\ comp = "suggester"
    /\ pc = "serving"
    /\ suggester_fixes = EmptyDict
    /\ fix_suggestions = [called |-> FALSE]
    /\ EarlierUnused /\ CleanerUnused /\ StoreUnused /\ BackendUnused /\ FrontUnused

\* POST /promote-fix
PromotePattern ==
    /\ comp = "suggester"
    /\ \E req \in PromoteRequests :
          suggester_fixes' = FixSuggester_promote_fix(suggester_fixes, req[1], req[2], req[3])
    /\ UNCHANGED <<comp, pc, earlierVars, frontVars, cleanerVars, storeVars, backendVars, fix_suggestions>>

\* POST /suggest-fixes
SuggestFixes ==
    /\ comp = "suggester"
    /\ \E df \in CleanedFrames, issues \in IssueLists :
          \E ai \in AiReplies(issues), pick \in Picks(df, issues) :
              fix_suggestions' =
                  SuggestCall(df, suggester_fixes, issues,
                              IssuesLoop(<<>>, df, suggester_fixes, issues, ai, pick, 1),
                              suggest_fixes(df, suggester_fixes, issues, ai, pick))
    /\ UNCHANGED <<comp, pc, earlierVars, frontVars, cleanerVars, storeVars, backendVars, suggester_fixes>>

SuggesterNext == PromotePattern \/ SuggestFixes

SpecSuggester == SuggesterInit /\ [][SuggesterNext]_vars

\* the suggestions the final pass appended
FinalPass(call) == SubSeq(call.returned, Len(call.existing) + 1, Len(call.returned))

\* those of them for one row label and column
AppendedFor(call, idx, column) ==
    SelectSeq(FinalPass(call), LAMBDA s : s.row_index = idx /\ s.column = column)

\* a per-issue suggestion covers the row label and column
Covered(call, idx, column) ==
    \E i \in DOMAIN call.existing :
        call.existing[i].row_index = idx /\ call.existing[i].column = column

\* the value matches a learned pattern of its column
MatchesLearned(fixes, column, value) ==
    /\ column \in DOMAIN fixes
    /\ \E k \in DOMAIN fixes[column] : re_search_ignorecase(fixes[column][k][1], value)

\* exactly one suggestion was appended for the cell, a learned_pattern one
\* with confidence 0.9
OneLearnedAppended(call, idx, column) ==
    /\ Len(AppendedFor(call, idx, column)) = 1
    /\ AppendedFor(call, idx, column)[1].fix_type = "learned_pattern"
    /\ AppendedFor(call, idx, column)[1].confidence = Frac(9, 10)

CellClaimed(call, j, r) ==
    /\ (MatchesLearned(call.learned_fixes, call.df.columns[j], astype_str(call.df.rows[r][j]))
            /\ ~Covered(call, call.df.index[r], call.df.columns[j]))
          => OneLearnedAppended(call, call.df.index[r], call.df.columns[j])
    /\ Covered(call, call.df.index[r], call.df.columns[j])
          => AppendedFor(call, call.df.index[r], call.df.columns[j]) = <<>>

\* C20: the final pass of suggest_fixes appends a learned_pattern suggestion
\* with confidence 0.9 for every cell whose value matches a learned pattern of
\* its column and that no per-issue suggestion covers, and nothing for a cell
\* that a per-issue suggestion covers
C20_LearnedPassCoversEveryMatch ==
    (comp = "suggester" /\ fix_suggestions.called)
        => \A j \in DOMAIN fix_suggestions.df.columns, r \in DOMAIN fix_suggestions.df.rows :
               CellClaimed(fix_suggestions, j, r)

\* the fix of the first matching pattern is a text, not empty, other than the
\* value itself
FixChanges(fixes, column, value) ==
    /\ MatchesLearned(fixes, column, value)
    /\ FirstFound(fixes[column], value, 1) \notin {Some(""), Some(value)}

CellAmended(call, j, r) ==
    IF /\ FixChanges(call.learned_fixes, call.df.columns[j], astype_str(call.df.rows[r][j]))
       /\ ~Covered(call, call.df.index[r], call.df.columns[j])
    THEN /\ OneLearnedAppended(call, call.df.index[r], call.df.columns[j])
         /\ AppendedFor(call, call.df.index[r], call.df.columns[j])[1].suggested_value
                = FirstFound(call.learned_fixes[call.df.columns[j]],
                             astype_str(call.df.rows[r][j]), 1)[1]
    ELSE AppendedFor(call, call.df.index[r], call.df.columns[j]) = <<>>

\* C20 as the code has it: the final pass appends one learned_pattern
\* suggestion with confidence 0.9 for every cell that no per-issue suggestion
\* covers and for which the fix of the first matching learned pattern of its
\* column is non-empty and differs from the cell's text, and nothing for any
\* other cell
C20_LearnedPassAppendsChangingFixes ==
    (comp = "suggester" /\ fix_suggestions.called)
        => \A j \in DOMAIN fix_suggestions.df.columns, r \in DOMAIN fix_suggestions.df.rows :
               CellAmended(fix_suggestions, j, r)

\* a call where the final pass appended a learned fix for one cell and left
\* out another cell with a changing fix because a per-issue suggestion covers it
C20_Witness ==
    /\ comp = "suggester" /\ fix_suggestions.called
    /\ \E r \in DOMAIN fix_suggestions.df.rows :
          /\ FixChanges(fix_suggestions.learned_fixes, "country",
                        astype_str(fix_suggestions.df.rows[r][1]))
          /\ ~Covered(fix_suggestions, fix_suggestions.df.index[r], "country")
          /\ OneLearnedAppended(fix_suggestions, fix_suggestions.df.index[r], "country")
    /\ \E r \in DOMAIN fix_suggestions.df.rows :
          /\ FixChanges(fix_suggestions.learned_fixes, "email",
                        astype_str(fix_suggestions.df.rows[r][2]))
          /\ Covered(fix_suggestions, fix_suggestions.df.index[r], "email")
          /\ AppendedFor(fix_suggestions, fix_suggestions.df.index[r], "email") = <<>>

(***************************************************************************)
(* The Stack B wizard's Promote button in front of the FixSuggester: the   *)
(* suggestions shown are those of the last suggest_fixes call              *)
(***************************************************************************)
\* the issues of the cleaning results the wizard asks suggestions for
WizardIssueLists ==
    {<<Issue("invalid_email", "email", <<0, 1>>)>>,
     <<Issue("format_validation", "country", <<0>>)>>}

\* what a promoted suggestion was about
Promoted(fix) ==
    [column |-> fix.column, current_value |-> fix.current_value,
     suggested_value |-> fix.suggested_value, fix_type |-> fix.fix_type]

PromotionInit ==
    /\ comp = "promotion"
    /\ pc = "serving"
    /\ suggester_fixes = EmptyDict
    /\ fix_suggestions = [called |-> FALSE]
    /\ promoted = {}
    /\ EarlierUnused /\ CleanerUnused /\ StoreUnused /\ BackendUnused
    /\ RaceUnused /\ WizardUnused /\ FailureUnused

\* the Fixes step fetches the suggestions (app.py lines 437-459)
FetchSuggestions ==
    /\ comp = "promotion"
    /\ \E df \in CleanedFrames, issues \in WizardIssueLists :
          \E ai \in AiReplies(issues), pick \in Picks(df, issues) :
              fix_suggestions' =
                  SuggestCall(df, suggester_fixes, issues,
                              IssuesLoop(<<>>, df, suggester_fixes, issues, ai, pick, 1),
                              suggest_fixes(df, suggester_fixes, issues, ai, pick))
    /\ UNCHANGED <<comp, pc, earlierVars, cleanerVars, storeVars, backendVars, raceVars,
                   wizardVars, failureVars, suggester_fixes, promoted>>

\* the Promote button of suggestion i (app.py lines 494-513): /promote-fix
\* with fix_type, pattern = current value, solution = suggested value
PromoteSuggestion ==
    /\ comp = "promotion"
    /\ fix_suggestions.called
    /\ \E i \in DOMAIN fix_suggestions.returned :
          /\ suggester_fixes' =
                 FixSuggester_promote_fix(suggester_fixes, fix_suggestions.returned[i].fix_type,
                                          fix_suggestions.returned[i].current_value,
                                          fix_suggestions.returned[i].suggested_value)
          /\ promoted' = promoted \cup {Promoted(fix_suggestions.returned[i])}
    /\ UNCHANGED <<comp, pc, earlierVars, cleanerVars, storeVars, backendVars, raceVars,
                   wizardVars, failureVars, fix_suggestions>>

PromotionNext == FetchSuggestions \/ PromoteSuggestion

SpecPromotion == PromotionInit /\ [][PromotionNext]_vars

\* the store the call ran with holds the promotion
Stored(fixes, p) ==
    /\ p.fix_type \in DOMAIN fixes
    /\ <<p.current_value, p.suggested_value>> \in Range(fixes[p.fix_type])

\* the call returned a learned_pattern suggestion with the promoted solution
\* for the row
ResolvedFromStore(call, p, r) ==
    \E i \in DOMAIN call.returned :
        /\ call.returned[i].row_index = call.df.index[r]
        /\ call.returned[i].column = p.column
        /\ call.returned[i].fix_type = "learned_pattern"
        /\ call.returned[i].suggested_value = p.suggested_value

\* C21: a suggest_fixes call made after the user promoted a suggestion for
\* column c and value v returns, for every cell of column c that holds v, a
\* learned_pattern suggestion carrying the promoted solution
C21_PromotedFixIsResolved ==
    (comp = "promotion" /\ fix_suggestions.called)
        => \A p \in promoted :
               Stored(fix_suggestions.learned_fixes, p)
                   => \A r \in DOMAIN fix_suggestions.df.rows :
                          CurrentValue(fix_suggestions.df, r - 1, p.column) = p.current_value
                              => ResolvedFromStore(fix_suggestions, p, r)

\* no call ever resolves a cell from the store: the wizard files a promotion
\* under its fix_type, and the lookup reads the entry of the column name
PromotedNeverResolved ==
    (comp = "promotion" /\ fix_suggestions.called)
        => \A i \in DOMAIN fix_suggestions.returned :
               fix_suggestions.returned[i].fix_type # "learned_pattern"

(***************************************************************************)
(* Several service processes over one data/learned_fixes.json: each has    *)
(* its own FixSuggester, built when the process starts                     *)
(***************************************************************************)
ServiceProcesses == {"service-1", "service-2"}

\* lines 407-418: the file's content, {} while there is no file
_load_learned_fixes(file) == IF file = Nothing THEN EmptyDict ELSE file[1]

\* the file rewritten with the file's own entries kept under the keys the
\* store lacks
_save_learned_fixes_Merged(file, fixes) ==
    Some([k \in DOMAIN fixes \cup DOMAIN _load_learned_fixes(file) |->
             IF k \in DOMAIN fixes THEN fixes[k] ELSE _load_learned_fixes(file)[k]])

\* lines 420-426: open(..., 'w') and json.dump(self.learned_fixes): the file
\* holds the store of the writer and nothing else
_save_learned_fixes(file, fixes) == Some(fixes)

\* the store holds the promoted fix
Holds(fixes, fix) ==
    fix[1] \in DOMAIN fixes /\ <<fix[2], fix[3]>> \in Range(fixes[fix[1]])

\* a promote_fix call that rewrote the file: who, what, and the writer's store
\* before and after
Write(process, fix, before, after) ==
    [process |-> process, fix |-> fix, before |-> before, after |-> after]

\* the last two writes
LastTwo(writes, write) ==
    IF Len(writes) = 2 THEN <<writes[2], write>> ELSE Append(writes, write)

RaceInit ==
    /\ comp = "race"
    /\ pc = "serving"
    /\ fixes_file = Nothing
    /\ services = [p \in ServiceProcesses |-> Nothing]
    /\ written = <<>>
    /\ EarlierUnused /\ CleanerUnused /\ StoreUnused /\ BackendUnused /\ SuggesterUnused
    /\ PromotionUnused /\ WizardUnused /\ FailureUnused

\* a process starts: fix_suggester = FixSuggester() loads the file
StartService ==
    /\ comp = "race"
    /\ \E p \in ServiceProcesses :
          /\ services[p] = Nothing
          /\ services' = [services EXCEPT ![p] = Some(_load_learned_fixes(fixes_file))]
    /\ UNCHANGED <<comp, pc, earlierVars, cleanerVars, storeVars, backendVars, suggesterVars,
                   promotionVars, wizardVars, failureVars, fixes_file, written>>

\* a process ends
StopService ==
    /\ comp = "race"
    /\ \E p \in ServiceProcesses :
          /\ services[p] # Nothing
          /\ services' = [services EXCEPT ![p] = Nothing]
    /\ UNCHANGED <<comp, pc, earlierVars, cleanerVars, storeVars, backendVars, suggesterVars,
                   promotionVars, wizardVars, failureVars, fixes_file, written>>

\* POST /promote-fix served by one process: the store of the process changed
\* and the file rewritten from it
ServicePromote ==
    /\ comp = "race"
    /\ \E p \in ServiceProcesses, req \in PromoteRequests :
          /\ services[p] # Nothing
          /\ services' =
                 [services EXCEPT ![p] =
                      Some(FixSuggester_promote_fix(services[p][1], req[1], req[2], req[3]))]
          /\ fixes_file' =
                 _save_learned_fixes(fixes_file,
                                     FixSuggester_promote_fix(services[p][1], req[1], req[2],
                                                              req[3]))
          /\ written' =
                 LastTwo(written,
                         Write(p, req, services[p][1],
                               FixSuggester_promote_fix(services[p][1], req[1], req[2],
                                                        req[3])))
    /\ UNCHANGED <<comp, pc, earlierVars, cleanerVars, storeVars, backendVars, suggesterVars,
                   promotionVars, wizardVars, failureVars>>

RaceNext == StartService \/ StopService \/ ServicePromote

SpecRace == RaceInit /\ [][RaceNext]_vars

\* two processes promoted different fixes one after the other, and the second
\* writer's store did not hold the first writer's promotion
StaleSecondWriter ==
    /\ comp = "race" /\ Len(written) = 2
    /\ written[1].process # written[2].process
    /\ written[1].fix # written[2].fix
    /\ ~Holds(written[2].before, written[1].fix)

\* C22: when two processes promote different fixes one after the other, each
\* from the store it loaded when it started, the file holds the second
\* writer's store only, and the first writer's promotion is missing from it
C22_LastWriterWins ==
    StaleSecondWriter
        => /\ fixes_file = Some(written[2].after)
           /\ ~Holds(fixes_file[1], written[1].fix)

\* a lost update: both processes still run, the first writer's store holds its
\* promotion and the file does not
C22_Witness ==
    /\ StaleSecondWriter
    /\ services[written[1].process] # Nothing
    /\ Holds(services[written[1].process][1], written[1].fix)
    /\ services[written[2].process] = Some(written[2].after)
    /\ ~Holds(fixes_file[1], written[1].fix)

(***************************************************************************)
(* The wizard in use: the user's clicks, one script run each, and the      *)
(* reruns that st.rerun() starts                                           *)
(***************************************************************************)
\* the /clean-data responses of a behaviour, numbered in the order received
CleaningSerials == {1, 2}

\* how often /suggest-fixes is seen called for one cleaning result
FetchCounts == {0, 1, 2}

\* what the file uploader holds: nothing, a CSV file, or a file pd.read_csv rejects
Chosen ==
    {Nothing, Some([name |-> "orders.csv", readable |-> TRUE]),
     Some([name |-> "empty.csv", readable |-> FALSE])}

\* a sample file of the working directory, or None when it is not there
Samples == {Nothing, Some([name |-> "Project6InputData1.csv", readable |-> TRUE])}

Failure == Reply(500, [detail |-> "error"])

SchemaReplies == {Failure, Reply(200, [columns |-> <<"email">>])}

MapReplies ==
    {Failure, Reply(200, [suggested_mapping |-> <<>>]),
     Reply(200, [suggested_mapping |-> <<<<"Email", "email">>>>])}

\* the n-th /clean-data response: the cleaned file and the issues
CleanReplies(n) ==
    {Failure,
     Reply(200, [serial |-> n, cleaned_file_path |-> CleanedPath(n), issues_found |-> <<>>]),
     Reply(200, [serial |-> n, cleaned_file_path |-> CleanedPath(n),
                 issues_found |-> <<Issue("invalid_email", "email", <<0, 1>>)>>])}

\* a suggestion made from the cleaned file of the n-th response; origin is not
\* a key of the dict, it names the file the suggestion was computed from
Suggested(n, row_index, current_value, suggested_value) ==
    [row_index |-> row_index, column |-> "email", current_value |-> current_value,
     suggested_value |-> suggested_value, fix_type |-> "email_format", origin |-> n]

SuggestReplies(n) ==
    {Reply(500, <<>>), Reply(200, <<>>),
     Reply(200, <<Suggested(n, 0, "x@gmailcom", "x@gmailcom.com"),
                  Suggested(n, 1, "y@gmailcom", "y@gmailcom.com")>>)}

\* the number of the cleaning result held, 0 when none is held
SerialHeld(ss) == IF ss.cleaning_result = Nothing THEN 0 ELSE ss.cleaning_result[1].serial

\* the inputs that matter to the view of the step; the others are fixed
UploadInputs(click) ==
    {RunInputs(click, chosen, sample, Failure, Failure, Failure, Reply(500, <<>>)) :
         chosen \in Chosen, sample \in Samples}

MappingInputs(click) ==
    {RunInputs(click, Nothing, Nothing, schema_reply, map_reply, Failure, Reply(500, <<>>)) :
         schema_reply \in SchemaReplies, map_reply \in MapReplies}

CleaningInputs(click, n) ==
    {RunInputs(click, Nothing, Nothing, Failure, Failure, clean_reply, Reply(500, <<>>)) :
         clean_reply \in CleanReplies(n)}

FixesInputs(click, n) ==
    {RunInputs(click, Nothing, Nothing, Failure, Failure, Failure, suggest_reply) :
         suggest_reply \in SuggestReplies(n)}

ResultsInputs(click) ==
    {RunInputs(click, Nothing, Nothing, Failure, Failure, Failure, Reply(500, <<>>))}

InputsOf(step, click, cleanings, held) ==
    IF step = "upload" THEN UploadInputs(click)
    ELSE IF step = "mapping" THEN MappingInputs(click)
    ELSE IF step = "cleaning" THEN CleaningInputs(click, cleanings + 1)
    ELSE IF step = "fixes" THEN FixesInputs(click, held)
    ELSE ResultsInputs(click)

\* which of the three results the session held when the view began
Held(ss) ==
    [uploaded_file |-> ss.uploaded_file # Nothing, mapping_result |-> ss.mapping_result # Nothing,
     cleaning_result |-> ss.cleaning_result # Nothing]

\* the record of a run
LastRun(ss, out) ==
    [view |-> ss.current_step, held |-> Held(ss), calls |-> out.calls,
     warning |-> out.warning, listed |-> out.listed, unchanged |-> out.state = ss]

\* the /suggest-fixes call of the run counted for the cleaning result held
Counted(calls, out, n) ==
    IF "/suggest-fixes" \in out.calls THEN [calls EXCEPT ![n] = @ + 1] ELSE calls

\* a new cleaning result starts a count of its own
Opened(calls, ss, out) ==
    IF SerialHeld(out.state) > Len(calls) THEN Append(calls, 0) ELSE calls

\* the suggestion a Reject button popped
Popped(rejected, ss, click) ==
    IF click.button = "reject" /\ ss.current_step = "fixes"
    THEN rejected \cup {ss.fix_suggestions[click.i + 1]}
    ELSE rejected

Fetches(calls, rejected) == [calls |-> calls, rejected |-> rejected]

WizardInit ==
    /\ comp = "wizard"
    /\ pc = "idle"
    /\ session_state = InitialSessionState
    /\ last_run = LastRun(InitialSessionState,
                          Rendered(InitialSessionState, {}, FALSE, <<>>, FALSE))
    /\ fetches = Fetches(<<>>, {})
    /\ EarlierUnused /\ CleanerUnused /\ StoreUnused /\ BackendUnused /\ SuggesterUnused
    /\ PromotionUnused /\ RaceUnused /\ FailureUnused

\* one run of the script on the click, with the inputs of its view
ScriptRun(click, inputs) ==
    /\ session_state' = run(session_state, inputs).state
    /\ last_run' = LastRun(render_sidebar(session_state, click), run(session_state, inputs))
    /\ fetches' =
           Fetches(Opened(Counted(fetches.calls, run(session_state, inputs),
                                  SerialHeld(session_state)),
                          session_state, run(session_state, inputs)),
                   Popped(fetches.rejected, session_state, click))
    /\ \A n \in DOMAIN fetches'.calls : fetches'.calls[n] \in FetchCounts
    /\ pc' = IF run(session_state, inputs).rerun THEN "rerun" ELSE "idle"
    /\ UNCHANGED <<comp, earlierVars, cleanerVars, storeVars, backendVars, suggesterVars,
                   promotionVars, raceVars, failureVars>>

RunOn(click) ==
    \E inputs \in InputsOf(render_sidebar(session_state, click).current_step, click,
                           Len(fetches.calls), SerialHeld(session_state)) :
        ScriptRun(click, inputs)

\* the run st.rerun() starts, and a run no button started (a checkbox, a
\* selection, the uploader)
Rerun == comp = "wizard" /\ RunOn(NoClick)

\* a sidebar button
Navigate == comp = "wizard" /\ pc = "idle" /\ \E step \in Steps : RunOn(Click("nav", step))

\* the Start Schema Mapping button and the sample buttons of the upload view
UploadButton ==
    /\ comp = "wizard" /\ pc = "idle" /\ session_state.current_step = "upload"
    /\ \E button \in {"start_mapping", "sample"} : RunOn(Click(button, 0))

\* the Analyze button of the mapping view, and the Proceed button under the
\* mapping results (render_mapping_results raises TypeError at line 276 before
\* the button when there is a mapping to list)
MappingButton ==
    /\ comp = "wizard" /\ pc = "idle" /\ session_state.current_step = "mapping"
    /\ session_state.uploaded_file # Nothing
    /\ \/ RunOn(Click("analyze", 0))
       \/ /\ session_state.mapping_result # Nothing
          /\ session_state.mapping_result[1].suggested_mapping = <<>>
          /\ RunOn(Click("proceed", 0))

\* the Start Data Cleaning button
StartCleaningButton ==
    /\ comp = "wizard" /\ pc = "idle" /\ session_state.current_step = "cleaning"
    /\ session_state.mapping_result # Nothing
    /\ Len(fetches.calls) + 1 \in CleaningSerials
    /\ RunOn(Click("start_cleaning", 0))

\* the button under the cleaning results: to the fixes or to the results
AfterCleaningButton ==
    /\ comp = "wizard" /\ pc = "idle" /\ session_state.current_step = "cleaning"
    /\ session_state.mapping_result # Nothing /\ session_state.cleaning_result # Nothing
    /\ \E button \in {"get_fixes", "view_results"} :
          /\ (button = "get_fixes") = (session_state.cleaning_result[1].issues_found # <<>>)
          /\ RunOn(Click(button, 0))

\* the Apply, Reject and Promote buttons of a listed suggestion
FixButton ==
    /\ comp = "wizard" /\ pc = "idle" /\ session_state.current_step = "fixes"
    /\ session_state.cleaning_result # Nothing
    /\ \E button \in {"apply", "reject", "promote"} :
          \E i \in 0..(Len(session_state.fix_suggestions) - 1) : RunOn(Click(button, i))

\* the View Final Results button
FinalResultsButton ==
    /\ comp = "wizard" /\ pc = "idle" /\ session_state.current_step = "fixes"
    /\ session_state.cleaning_result # Nothing
    /\ RunOn(Click("final_results", 0))

\* the Upload New File button of the results view
NewFileButton ==
    /\ comp = "wizard" /\ pc = "idle" /\ session_state.current_step = "results"
    /\ session_state.cleaning_result # Nothing
    /\ RunOn(Click("new_file", 0))

WizardNext ==
    \/ Rerun \/ Navigate \/ UploadButton \/ MappingButton \/ StartCleaningButton
    \/ AfterCleaningButton \/ FixButton \/ FinalResultsButton \/ NewFileButton

SpecWizard == WizardInit /\ [][WizardNext]_vars

\* C23: /suggest-fixes is called at most once for a cleaning result, and a
\* suggestion the user has rejected is not held for listing again
C23_SuggestFixesCalledOnce ==
    comp = "wizard"
        => /\ \A n \in DOMAIN fetches.calls : fetches.calls[n] <= 1
           /\ \A s \in fetches.rejected :
                  \A i \in DOMAIN session_state.fix_suggestions :
                      session_state.fix_suggestions[i] # s

\* what the view of a step needs to be held before it calls the backend
Prerequisite(run_record) ==
    IF run_record.view = "mapping" THEN run_record.held.uploaded_file
    ELSE IF run_record.view = "cleaning" THEN run_record.held.mapping_result
    ELSE IF run_record.view \in {"fixes", "results"} THEN run_record.held.cleaning_result
    ELSE TRUE

\* C27: a view calls the backend only when its prerequisite is held (the
\* mapping view an uploaded file, the cleaning view a mapping result, the
\* fixes and results views a cleaning result); without it the view shows its
\* warning, calls nothing and leaves the session state as it was
C27_ViewsGuarded ==
    comp = "wizard"
        => /\ last_run.calls # {} => Prerequisite(last_run)
           /\ ~Prerequisite(last_run)
                  => last_run.warning /\ last_run.calls = {} /\ last_run.unchanged

\* the sidebar led to the mapping view with no file held and the view warned
C27_Witness ==
    /\ comp = "wizard"
    /\ last_run.view = "mapping" /\ ~last_run.held.uploaded_file
    /\ last_run.warning /\ last_run.calls = {}

\* C28: the suggestions held were made from the cleaned file of the cleaning
\* result held
C28_SuggestionsOfCurrentCleaning ==
    comp = "wizard"
        => \A i \in DOMAIN session_state.fix_suggestions :
               session_state.fix_suggestions[i].origin = SerialHeld(session_state)

(***************************************************************************)
(* C26: rule sets of the email column through POST /clean-data             *)
(***************************************************************************)
\* the requests that reach _clean_column: a readable upload with rows and a
\* rule set for the email column
RulesApplied(req) ==
    /\ req.file_content.hex
    /\ req.file_content.csv # Nothing
    /\ Len(req.file_content.csv[1].rows) > 0
    /\ "email" \in DOMAIN req.cleaning_rules

\* C26: _clean_column completes without raising for every rule set of
\* recognized keys, with or without validate_format and in any order
C26_EveryRuleSetCompletes ==
    (comp = "backend" /\ response.endpoint = "clean-data" /\ RulesApplied(response.request))
        => ~response.outcome.raised

\* the call completes exactly when validate_format is the first key of the set
CompletesIffValidateFormatFirst ==
    (comp = "backend" /\ response.endpoint = "clean-data" /\ RulesApplied(response.request))
        => (response.outcome.raised
               <=> response.request.cleaning_rules["email"][1][1] # "validate_format")

(***************************************************************************)
(* C25: the containment score of the agent mapper's fuzzy stage            *)
(***************************************************************************)
Min(a, b) == IF a <= b THEN a ELSE b

\* the score C25 names: the shorter length over the longer one
ShorterOverLonger(a, b) == Frac(Min(Len(a), Len(b)), Max(Len(a), Len(b)))

ProperSubstring(a, b) == Contains(b, a) /\ Len(a) < Len(b)

\* the keywords one of which contains the name, or is contained in it
Containing(name) == {p \in AllKeywords : Contains(name, p) \/ Contains(p, name)}

\* C25: for the name _find_best_match was called on and every keyword in a
\* containment relation with it, the containment score is shorter over
\* longer; a name that is a proper substring of a keyword, when the fuzzy
\* stage placed it, has a confidence strictly below 1
C25_ContainmentScore ==
    (comp = "mapper_agent" /\ pc = "returned")
        => /\ \A p \in Containing(source_lower) :
                  FracEQ(SubstringStep(<<None, Zero>>, source_lower, "c", p)[2],
                         ShorterOverLonger(source_lower, p))
           /\ (result.mapping_type = "fuzzy"
                  /\ \E p \in AllKeywords : ProperSubstring(source_lower, p))
                 => FracGT(One, result.confidence)

\* what line 109 computes: the keyword's length over the longer length, which
\* is 1 whenever the name lies inside the keyword
KeywordOverLonger ==
    (comp = "mapper_agent" /\ pc = "returned")
        => \A p \in Containing(source_lower) :
               /\ FracEQ(SubstringStep(<<None, Zero>>, source_lower, "c", p)[2],
                         Frac(Len(p), Max(Len(source_lower), Len(p))))
               /\ Contains(p, source_lower)
                     => FracEQ(SubstringStep(<<None, Zero>>, source_lower, "c", p)[2], One)
               /\ Contains(source_lower, p)
                     => FracEQ(SubstringStep(<<None, Zero>>, source_lower, "c", p)[2],
                               ShorterOverLonger(source_lower, p))

(***************************************************************************)
(* The three loops that call a model, each run over items with the replies *)
(* the model gives: LLMFixAgent.generate_fix_suggestions,                  *)
(* SchemaMapperAgent.map_columns and FixSuggester._suggest_email_fixes     *)
(***************************************************************************)
\* fix_suggester.py lines 129-161: None without a model, None when the call
\* raises, None for "INVALID" or an empty reply, otherwise the trimmed reply
_ai_suggest_email_fix(llm, reply) ==
    IF ~llm THEN Nothing
    ELSE IF reply.raises THEN Nothing
    ELSE IF strip(reply.content) = "INVALID" \/ strip(reply.content) = "" THEN Nothing
    ELSE Some(strip(reply.content))

\* lines 68-97: for row_idx in invalid_rows; replies[k] is what the model does
\* if it is asked about the k-th row
RECURSIVE EmailRowsLoop(_, _, _, _, _, _, _)
EmailRowsLoop(acc, df, column, invalid_rows, llm, replies, k) ==
    IF k > Len(invalid_rows) THEN acc
    ELSE IF invalid_rows[k] >= Len(df.rows)
    THEN EmailRowsLoop(acc, df, column, invalid_rows, llm, replies, k + 1)
    ELSE EmailRowsLoop(acc \o EmailSuggestion(invalid_rows[k], column,
                                              CurrentValue(df, invalid_rows[k], column),
                                              _ai_suggest_email_fix(llm, replies[k])),
                       df, column, invalid_rows, llm, replies, k + 1)

\* whether the model is asked about the k-th row
Asked(df, column, invalid_rows, k) ==
    /\ invalid_rows[k] < Len(df.rows)
    /\ _fix_email(CurrentValue(df, invalid_rows[k], column))
           = CurrentValue(df, invalid_rows[k], column)

\* lines 62-99 with no handler around the model call: a call that raises ends
\* the loop and nothing is returned
_suggest_email_fixes_Uncaught(df, column, invalid_rows, llm, replies) ==
    IF llm /\ \E k \in DOMAIN invalid_rows :
                  Asked(df, column, invalid_rows, k) /\ replies[k].raises
    THEN <<>>
    ELSE EmailRowsLoop(<<>>, df, column, invalid_rows, llm, replies, 1)

\* lines 62-99
_suggest_email_fixes(df, column, invalid_rows, llm, replies) ==
    EmailRowsLoop(<<>>, df, column, invalid_rows, llm, replies, 1)

\* the sequences of two different items of a set
TwoOf(S) == {<<a, b>> : a \in S, b \in S} \ {<<a, a>> : a \in S}

\* the validation errors of a run: canonical columns, one row each
FailureErrors ==
    {[column |-> "email", row_index |-> 0, value |-> PyStr("bad"), error_type |-> "format"],
     [column |-> "phone", row_index |-> 1, value |-> PyStr("12"), error_type |-> "format"],
     [column |-> "order_id", row_index |-> 2, value |-> PyStr("7"), error_type |-> "format"]}

\* replies to the fix prompt with a value and a reason, and replies without
UsableFixTexts ==
    {"SUGGESTED_VALUE: fixed\nREASON: looks wrong\nCONFIDENCE: 0.8",
     " SUGGESTED_VALUE: fixed\nREASON: no number\nCONFIDENCE: high\n"}

UnparseableFixTexts == {"SUGGESTED_VALUE: fixed\nCONFIDENCE: 0.8", "I cannot help with that."}

\* the headers of a run: two that only the semantic stage can place, one that
\* the exact stage places and one that the fuzzy stage places
FailureColumns == {"zzz", "q9z", "Email", "custom"}

\* replies to the matching prompt in the format asked for, and replies not
UsableMatchTexts == {"email|0.9", "city|0.65"}

UnparseableMatchTexts == {"order_id", "email|high", "email|0.9|x"}

\* the cleaned frame of the email fixer: two addresses no rule repairs, one
\* that _fix_email repairs
FailureFrame ==
    DataFrame(<<"email">>, <<0, 1, 2>>,
              <<<<PyStr("bad")>>, <<PyStr("worse")>>, <<PyStr("x@gmailcom")>>>>)

UsableEmailTexts == {"fixed@x.io", " other@x.io\n"}

Texts(stack) ==
    IF stack = "fix_generation" THEN UsableFixTexts \cup UnparseableFixTexts
    ELSE IF stack = "semantic_matching" THEN UsableMatchTexts \cup UnparseableMatchTexts
    ELSE UsableEmailTexts

ModelReplies(stack) == {LLMReply(TRUE, "")} \cup {LLMReply(FALSE, c) : c \in Texts(stack)}

\* a reply that is no answer: the call raised, or the text is not in the format
Unusable(reply) ==
    reply.raises \/ reply.content \in UnparseableFixTexts \cup UnparseableMatchTexts

\* one run of a loop: its items, the replies of the model, whether a model was
\* there at all, and what the loop returned
LlmRun(stack, items, llm, replies, output) ==
    [stack |-> stack, items |-> items, llm |-> llm, replies |-> replies, output |-> output]

FailureInit ==
    /\ comp = "model_failure"
    /\ pc = "idle"
    /\ llm_run = LlmRun("none", <<>>, TRUE, <<>>, <<>>)
    /\ EarlierUnused /\ CleanerUnused /\ StoreUnused /\ BackendUnused /\ SuggesterUnused
    /\ PromotionUnused /\ RaceUnused /\ WizardUnused

\* LLMFixAgent.generate_fix_suggestions(df, validation_errors), nothing learned
RunFixGeneration ==
    /\ comp = "model_failure"
    /\ pc = "idle"
    /\ \E errors \in TwoOf(FailureErrors) :
          \E first \in ModelReplies("fix_generation"), second \in ModelReplies("fix_generation") :
              llm_run' = LlmRun("fix_generation", errors, TRUE, <<first, second>>,
                                generate_fix_suggestions(EmptyDict, errors, <<first, second>>, 1))
    /\ pc' = "returned"
    /\ UNCHANGED <<comp, earlierVars, cleanerVars, storeVars, backendVars, suggesterVars,
                   promotionVars, raceVars, wizardVars>>

\* SchemaMapperAgent.map_columns(source_columns)
RunSemanticMatching ==
    /\ comp = "model_failure"
    /\ pc = "idle"
    /\ \E columns \in TwoOf(FailureColumns) :
          \E first \in ModelReplies("semantic_matching"),
             second \in ModelReplies("semantic_matching") :
              llm_run' = LlmRun("semantic_matching", columns, TRUE, <<first, second>>,
                                map_columns(columns, <<first, second>>, 1))
    /\ pc' = "returned"
    /\ UNCHANGED <<comp, earlierVars, cleanerVars, storeVars, backendVars, suggesterVars,
                   promotionVars, raceVars, wizardVars>>

\* FixSuggester._suggest_email_fixes(df, 'email', invalid_rows)
RunEmailFixer ==
    /\ comp = "model_failure"
    /\ pc = "idle"
    /\ \E invalid_rows \in TwoOf({0, 1, 2}), llm \in BOOLEAN :
          \E first \in ModelReplies("email_fixer"), second \in ModelReplies("email_fixer") :
              llm_run' = LlmRun("email_fixer", invalid_rows, llm, <<first, second>>,
                                _suggest_email_fixes(FailureFrame, "email", invalid_rows, llm,
                                                     <<first, second>>))
    /\ pc' = "returned"
    /\ UNCHANGED <<comp, earlierVars, cleanerVars, storeVars, backendVars, suggesterVars,
                   promotionVars, raceVars, wizardVars>>

FailureNext == RunFixGeneration \/ RunSemanticMatching \/ RunEmailFixer

SpecModelFailure == FailureInit /\ [][FailureNext]_vars

\* what the run returned for its k-th item
OutputOf(r, k) ==
    IF r.stack = "fix_generation"
    THEN SelectSeq(r.output, LAMBDA s : s.row_index = r.items[k].row_index)
    ELSE IF r.stack = "semantic_matching"
    THEN SelectSeq(r.output, LAMBDA m : m.source_column = r.items[k])
    ELSE SelectSeq(r.output, LAMBDA s : s.row_index = r.items[k])

\* whether the k-th item is one the model is asked about
ModelAsked(r, k) ==
    IF r.stack = "fix_generation" THEN TRUE
    ELSE IF r.stack = "semantic_matching"
    THEN /\ ExactCandidates(strip(lower(r.items[k]))) = <<>>
         /\ ~FuzzyAccepted(_fuzzy_match(strip(lower(r.items[k])))[2])
    ELSE Asked(FailureFrame, "email", r.items, k)

\* the mark of an output that came from the model
FromModel(r, out) ==
    IF r.stack = "fix_generation" THEN out.fix_type = "llm"
    ELSE IF r.stack = "semantic_matching" THEN out.mapping_type = "semantic"
    ELSE out.fix_type = "ai_email_fix"

\* C24: an item whose model call raised or came back unparseable (or, in
\* Stack B, had no model to ask) yields nothing; every other item of the run,
\* before or after it, yields its one suggestion or match all the same
C24_ModelFailureSkipsOneItem ==
    (comp = "model_failure" /\ llm_run.stack # "none")
        => \A k \in DOMAIN llm_run.items :
               IF ModelAsked(llm_run, k) /\ (Unusable(llm_run.replies[k]) \/ ~llm_run.llm)
               THEN OutputOf(llm_run, k) = <<>>
               ELSE /\ Len(OutputOf(llm_run, k)) = 1
                    /\ FromModel(llm_run, OutputOf(llm_run, k)[1]) = ModelAsked(llm_run, k)

\* the model call of the first item raised and the second item got its answer
C24_Witness ==
    /\ comp = "model_failure"
    /\ llm_run.stack = "email_fixer" /\ llm_run.llm
    /\ ModelAsked(llm_run, 1) /\ llm_run.replies[1].raises
    /\ ModelAsked(llm_run, 2) /\ ~llm_run.replies[2].raises
    /\ Len(llm_run.output) = 1 /\ llm_run.output[1].row_index = llm_run.items[2]

(***************************************************************************)
(* C29: the broadcasts of one column, one after the other                  *)
(***************************************************************************)
\* the recorded transformation applied once to the value: the result of the
\* first matching rule, or the value itself when no rule matches or it is absent
TransformedOnce(value, column) ==
    IF value = NaN \/ Len(Matching(value, column)) = 0 THEN value
    ELSE _transform_value(value, Matching(value, column)[1])

\* C29: every cell of a ruled column holds the transformation applied once to
\* the value the row held before the call
C29_EachCellTransformedOnce ==
    Cleaned =>
        \A j \in DOMAIN input_df.rows[1] :
            cleaning.cleaned_df.columns[j] \in DOMAIN cleaning_rules
                => \A r \in DOMAIN input_df.rows :
                       CellOut(r, j) = TransformedOnce(CellIn(r, j), cleaning.cleaned_df.columns[j])

\* a cell differs from its value transformed once only where the transformed
\* value is itself the original value of a result recorded later for the column
OnlyChainsTransformTwice ==
    Cleaned =>
        \A j \in DOMAIN input_df.rows[1] :
            cleaning.cleaned_df.columns[j] \in DOMAIN cleaning_rules
                => \A r \in DOMAIN input_df.rows :
                       \/ CellOut(r, j) = TransformedOnce(CellIn(r, j), cleaning.cleaned_df.columns[j])
                       \/ \E k1, k2 \in DOMAIN cleaning.cleaning_results :
                              /\ k1 < k2
                              /\ cleaning.cleaning_results[k1].original_value = CellIn(r, j)
                              /\ PyEq(cleaning.cleaning_results[k2].original_value,
                                      cleaning.cleaning_results[k1].cleaned_value)
                              /\ CellOut(r, j) = cleaning.cleaning_results[k2].cleaned_value

(***************************************************************************)
(* C30: what the apply_fixes stage changes                                 *)
(***************************************************************************)
\* the frame the clean_data node returned: the upload cleaned under the
\* mappings of the mapper (the manual ones are added after the cleaning)
CleanedDataset(st) ==
    clean_data(st.raw_dataframe,
               SelectSeq(st.column_mappings, LAMBDA m : m.mapping_type # "manual")).cleaned_df

\* a run has ended that went through apply_fixes
FixesStageRan == comp = "graph" /\ pc = END /\ "apply_fixes" \in Range(executed)

\* the cell at row position r and column position c is named by an accepted fix
Named(df, applied_fixes, r, c) ==
    \E i \in DOMAIN applied_fixes :
        applied_fixes[i].row_index = df.index[r] /\ applied_fixes[i].column = df.columns[c]

\* the frame has the rows and columns of the cleaned frame, and every cell no
\* fix names holds its cleaned value
OnlyNamedCellsChanged(df, cleaned, applied_fixes) ==
    /\ df.index = cleaned.index
    /\ df.columns = cleaned.columns
    /\ \A r \in DOMAIN cleaned.rows : \A c \in DOMAIN cleaned.columns :
           ~Named(cleaned, applied_fixes, r, c) => df.rows[r][c] = cleaned.rows[r][c]

\* C30: the final_dataframe of a run that went through apply_fixes has the
\* rows and columns of the cleaned dataset, and only the cells named by the
\* accepted fixes differ from it
C30_OnlyNamedCellsChange ==
    FixesStageRan
        => OnlyNamedCellsChanged(state.final_dataframe, CleanedDataset(state),
                                 state.applied_fixes)

\* the claim holds for the runs all of whose fixes name a row of the frame
FixesOfHeldRowsChangeNamedCells ==
    (FixesStageRan /\ \A i \in DOMAIN state.applied_fixes :
                          state.applied_fixes[i].row_index
                              \in Range(CleanedDataset(state).index))
        => OnlyNamedCellsChanged(state.final_dataframe, CleanedDataset(state),
                                 state.applied_fixes)

\* a fix of a held column whose row label the frame lacks adds a row
FixOfMissingRowAddsRow ==
    (FixesStageRan /\ \E i \in DOMAIN state.applied_fixes :
                          /\ state.applied_fixes[i].column
                                 \in Range(CleanedDataset(state).columns)
                          /\ state.applied_fixes[i].row_index
                                 \notin Range(CleanedDataset(state).index))
        => Len(state.final_dataframe.index) > Len(CleanedDataset(state).index)

\* until apply_fixes runs the state holds the frame the clean_data node returned
CleanedDatasetKept ==
    (comp = "graph" /\ pc \in {"validate_data", "generate_fixes", "apply_manual_mappings",
                               "apply_fixes"})
        => state.cleaned_dataframe = CleanedDataset(state)

====
